---- MODULE Spec2Model ----
(***************************************************************************)
(* A model of the rox tree-walking Lox interpreter: the scanner            *)
(* (src/src/scanner.rs), the resolver (src/src/resolver.rs), the           *)
(* environment chain (src/src/environment.rs), functions, classes and      *)
(* instances (src/src/functions.rs, src/src/class.rs) and the evaluator    *)
(* (src/src/interpreter.rs).                                               *)
(*                                                                         *)
(* The visitors are recursive operators over syntax trees; every operator  *)
(* takes the interpreter (or resolver) state and returns a result record   *)
(* [st, v, k, msg] where k is "ok" (Ok(v)), "err" (Err(msg)) or "panic"    *)
(* (the process aborted: an unwrap() of None/Err, or stack exhaustion).    *)
(* Numbers are integers: the programs of the model use no fractions.       *)
(***************************************************************************)
EXTENDS Integers, Sequences, FiniteSets, TLC

VARIABLES
    \* ---- driver ----
    program,         \* the statements handed to Resolver::resolve and Interpreter::interpret
    phase,           \* "parsed" | "resolved" | "static_error" | "done" | "runtime_error" | "panic"
    pc,              \* index of the next top-level statement of Interpreter::interpret
    \* ---- Interpreter ----
    heap,            \* the Rc<RefCell<Environment>> cells, by allocation order
    environment,     \* Interpreter.environment: index into heap
    locals,          \* Interpreter.locals: hash key -> hop count
    out,             \* lines written by println! in visit_print_statement
    blocks,          \* history: one record per return of execute_block
    now,             \* what SystemTime::now() answers (milliseconds)
    \* ---- Resolver ----
    scopes, current_function, current_class,
    \* ---- Scanner ----
    source, tokens, start, current, line, scan_pc,
    spins,           \* history: parity of the iterations the `//` loop has made
    \* ---- Environment, called on its own ----
    last_assign,        \* history: the last call of Environment::assign and its result
    \* ---- Parser ----
    parser_tokens,   \* Parser.tokens
    parser_current,  \* Parser.current
    parsed,          \* the `statements` vector of Parser::parse
    parser_pc        \* "loop" | "returned" | "error" | "panic" ("idle" without a parser)

vars == <<program, phase, pc, heap, environment, locals, out, blocks, now,
          scopes, current_function, current_class,
          source, tokens, start, current, line, scan_pc, spins,
          last_assign, parser_tokens, parser_current, parsed, parser_pc>>

interp_vars == <<program, phase, pc, heap, environment, locals, out, blocks, now,
                 scopes, current_function, current_class>>
scan_vars == <<source, tokens, start, current, line, scan_pc, spins>>
env_vars == <<last_assign>>
parse_vars == <<parser_tokens, parser_current, parsed, parser_pc>>

----------------------------------------------------------------------------
(* DataType (src/src/token.rs) and Option<DataType>                        *)

Nil == [t |-> "Nil"]
None == [t |-> "None"]
Bool(b) == [t |-> "Bool", b |-> b]
Number(n) == [t |-> "Number", n |-> n]
String(s) == [t |-> "String", s |-> s]
NativeClock == [t |-> "NativeFunction", name |-> "Clock"]

(* HashMap<String, _> *)
EmptyMap == [x \in {} |-> None]
Has(m, key) == key \in DOMAIN m
Put(m, key, v) == [x \in (DOMAIN m) \cup {key} |-> IF x = key THEN v ELSE m[x]]

(* anyhow::Result<DataType>, plus the abort of the process *)
Ok(st, v) == [st |-> st, v |-> v, k |-> "ok", msg |-> ""]
Err(st, msg) == [st |-> st, v |-> Nil, k |-> "err", msg |-> msg]
Panic(st, msg) == [st |-> st, v |-> Nil, k |-> "panic", msg |-> msg]

(* str::eq_ignore_ascii_case, on the identifiers the model's programs use *)
LowerTable == [Init |-> "init", INIT |-> "init", A |-> "a", B |-> "b", C |-> "c", D |-> "d"]
to_ascii_lowercase(s) == IF s \in DOMAIN LowerTable THEN LowerTable[s] ELSE s
eq_ignore_ascii_case(a, b) == to_ascii_lowercase(a) = to_ascii_lowercase(b)

----------------------------------------------------------------------------
(* Environment (src/src/environment.rs); an environment is heap[e]         *)

Environment_new == [parent |-> 0, values |-> EmptyMap]
new_with_parent_environment(parent) == [parent |-> parent, values |-> EmptyMap]

(* a define that writes to the enclosing scope: what define must not do *)
define_mutant_parent(h, e, name, value) ==
    LET target == IF h[e].parent = 0 THEN e ELSE h[e].parent
    IN  [h EXCEPT ![target].values = Put(h[target].values, name, value)]

define(h, e, name, value) ==
    [h EXCEPT ![e].values = Put(h[e].values, name, value)]

RECURSIVE Environment_get(_, _, _)
Environment_get(h, e, name) ==
    IF Has(h[e].values, name) /\ h[e].values[name].t # "None"
    THEN h[e].values[name]
    ELSE IF h[e].parent # 0 THEN Environment_get(h, h[e].parent, name) ELSE None

RECURSIVE get_at(_, _, _, _)
get_at(h, e, distance, name) ==
    IF distance = 0
    THEN IF Has(h[e].values, name)
         THEN [k |-> "ok", v |-> h[e].values[name]]
         ELSE [k |-> "panic", v |-> None]
    ELSE IF h[e].parent = 0
         THEN [k |-> "panic", v |-> None]
         ELSE get_at(h, h[e].parent, distance - 1, name)

RECURSIVE assign_mutant_create(_, _, _, _), assign(_, _, _, _)

(* an assign that binds the name in the outermost scope when no scope has it *)
assign_mutant_create(h, e, name, value) ==
    IF Has(h[e].values, name)
    THEN [k |-> "ok", h |-> [h EXCEPT ![e].values = Put(h[e].values, name, value)]]
    ELSE IF h[e].parent # 0
         THEN assign_mutant_create(h, h[e].parent, name, value)
         ELSE [k |-> "ok", h |-> [h EXCEPT ![e].values = Put(h[e].values, name, value)]]

assign(h, e, name, value) ==
    IF Has(h[e].values, name)
    THEN [k |-> "ok", h |-> [h EXCEPT ![e].values = Put(h[e].values, name, value)]]
    ELSE IF h[e].parent # 0
         THEN assign(h, h[e].parent, name, value)
         ELSE [k |-> "err", h |-> h]

RECURSIVE assign_at_mutant_through(_, _, _, _, _), assign_at(_, _, _, _, _)

(* an assign_at that goes on to the parent when the scope lacks the name *)
assign_at_mutant_through(h, e, distance, name, value) ==
    IF distance = 0
    THEN IF Has(h[e].values, name) \/ h[e].parent = 0
         THEN [k |-> "ok", h |-> [h EXCEPT ![e].values = Put(h[e].values, name, value)]]
         ELSE assign_at_mutant_through(h, h[e].parent, 0, name, value)
    ELSE IF h[e].parent = 0
         THEN [k |-> "panic", h |-> h]
         ELSE assign_at_mutant_through(h, h[e].parent, distance - 1, name, value)

assign_at(h, e, distance, name, value) ==
    IF distance = 0
    THEN [k |-> "ok", h |-> [h EXCEPT ![e].values = Put(h[e].values, name, value)]]
    ELSE IF h[e].parent = 0
         THEN [k |-> "panic", h |-> h]
         ELSE assign_at(h, h[e].parent, distance - 1, name, value)

(* Rc::new(RefCell::new(environment)) *)
Alloc(st, env) == [st EXCEPT !.heap = Append(st.heap, env)]
Fresh(st) == Len(st.heap) + 1

----------------------------------------------------------------------------
(* LoxFunction, LoxClass, LoxInstance (functions.rs, class.rs)             *)

LoxFunction_new(declaration, closure, is_init) ==
    [t |-> "Function", body |-> declaration.body, params |-> declaration.params,
     name |-> declaration.name, closure |-> closure, is_init |-> is_init]

(* bind allocates the scope that holds `this` and returns the bound function *)
bind(st, f, instance) ==
    LET env == [parent |-> f.closure, values |-> Put(EmptyMap, "this", instance)]
    IN  [st |-> Alloc(st, env), v |-> [f EXCEPT !.closure = Fresh(st)]]

RECURSIVE find_method(_, _)
find_method(class, name) ==
    IF Has(class.methods, name) THEN class.methods[name]
    ELSE IF class.super_class.t # "None" THEN find_method(class.super_class, name)
    ELSE None

LoxFunction_arity(f) == Len(f.params)

LoxClass_arity(class) ==
    LET initializer == find_method(class, "init")
    IN  IF initializer.t # "None" THEN LoxFunction_arity(initializer) ELSE 0

Clock_arity == 0

LoxInstance_get(st, instance, name) ==
    IF Has(instance.fields, name) THEN Ok(st, instance.fields[name])
    ELSE LET method == find_method(instance.class, name)
         IN  IF method.t # "None"
             THEN LET b == bind(st, method, instance) IN Ok(b.st, b.v)
             ELSE Err(st, "Undefined property")

LoxInstance_set(instance, name, value) ==
    [instance EXCEPT !.fields = Put(instance.fields, name, value)]

(* impl Display for DataType; the derived Debug text of a class or an      *)
(* instance is abbreviated to its class name                               *)
Display(v) ==
    CASE v.t = "String" -> v.s
      [] v.t = "Number" -> ToString(v.n)
      [] v.t = "Bool" -> IF v.b THEN "true" ELSE "false"
      [] v.t = "Nil" -> "NIL"
      [] v.t = "Function" -> "<Function " \o v.name \o ">"
      [] v.t = "NativeFunction" -> "<Native-Function " \o v.name \o ">"
      [] v.t = "Class" -> "LoxClass " \o v.name
      [] v.t = "Instance" -> "LoxInstance " \o v.class.name

----------------------------------------------------------------------------
(* Interpreter (src/src/interpreter.rs).  The interpreter state st is the  *)
(* record [heap, environment, locals, out, blocks, now]; globals is the    *)
(* first cell of the heap.                                                 *)

globals == 1

Interpreter_new(clock) ==
    [heap |-> <<[parent |-> 0, values |-> Put(EmptyMap, "clock", NativeClock)]>>,
     environment |-> globals, locals |-> EmptyMap, out |-> <<>>, blocks |-> <<>>,
     now |-> clock]

is_truthy(value) ==
    CASE value.t = "String" -> TRUE
      [] value.t = "Number" -> TRUE
      [] value.t = "Bool" -> TRUE
      [] value.t = "Nil" -> FALSE
      [] OTHER -> FALSE

(* an is_equal that takes nil on the left for false on the right *)
is_equal_mutant_nil(left, right) ==
    CASE left.t = "Nil" /\ right.t = "Nil" -> TRUE
      [] left.t = "Nil" -> right = Bool(FALSE)
      [] left.t = "Bool" /\ right.t = "Bool" -> left.b = right.b
      [] left.t = "Bool" -> FALSE
      [] left.t = "Number" /\ right.t = "Number" -> left.n = right.n
      [] left.t = "Number" -> FALSE
      [] left.t = "String" /\ right.t = "String" -> left.s = right.s
      [] left.t = "String" -> FALSE
      [] OTHER -> FALSE

is_equal(left, right) ==
    CASE left.t = "Nil" /\ right.t = "Nil" -> TRUE
      [] left.t = "Nil" -> FALSE
      [] left.t = "Bool" /\ right.t = "Bool" -> left.b = right.b
      [] left.t = "Bool" -> FALSE
      [] left.t = "Number" /\ right.t = "Number" -> left.n = right.n
      [] left.t = "Number" -> FALSE
      [] left.t = "String" /\ right.t = "String" -> left.s = right.s
      [] left.t = "String" -> FALSE
      [] OTHER -> FALSE

(* format!("{}-{}-{:?}", token.lexeme, token.line, token.literal): the     *)
(* literal of an identifier or keyword token is always None, so the key is *)
(* the pair of the lexeme and the line                                     *)
token_hash(lexeme, ln) == <<lexeme, ln>>

get_var_expr_hash(expr) ==
    IF expr.t = "Variable" THEN [k |-> "ok", v |-> token_hash(expr.name, expr.line)]
    ELSE [k |-> "err", v |-> <<>>]

get_assign_expr_hash(expr) ==
    IF expr.t = "Assign" THEN [k |-> "ok", v |-> token_hash(expr.name, expr.line)]
    ELSE [k |-> "err", v |-> <<>>]

get_this_expr_hash(expr) ==
    IF expr.t = "This" THEN [k |-> "ok", v |-> token_hash("this", expr.line)]
    ELSE [k |-> "err", v |-> <<>>]

get_super_expr_hash(expr) ==
    IF expr.t = "Super" THEN [k |-> "ok", v |-> token_hash("super", expr.line)]
    ELSE [k |-> "err", v |-> <<>>]

get_hash_key(expr) ==
    CASE get_var_expr_hash(expr).k = "ok" -> get_var_expr_hash(expr)
      [] get_assign_expr_hash(expr).k = "ok" -> get_assign_expr_hash(expr)
      [] get_this_expr_hash(expr).k = "ok" -> get_this_expr_hash(expr)
      [] get_super_expr_hash(expr).k = "ok" -> get_super_expr_hash(expr)
      [] OTHER -> [k |-> "err", v |-> <<>>]

(* Interpreter::resolve, on the side table alone *)
Interpreter_resolve(table, expr, depth) ==
    LET hash == get_hash_key(expr)
    IN  IF hash.k = "err" THEN [k |-> "err", locals |-> table]
        ELSE [k |-> "ok", locals |-> Put(table, hash.v, depth)]

look_up_variable(st, name, expr) ==
    LET local == get_hash_key(expr)
    IN  IF local.k = "err" THEN Err(st, "could not find hash of expr")
        ELSE IF Has(st.locals, local.v)
        THEN LET got == get_at(st.heap, st.environment, st.locals[local.v], name)
             IN  CASE got.k = "panic" -> Panic(st, "get_at: unwrap on None")
                   [] got.v.t = "None" -> Err(st, "var not found")
                   [] OTHER -> Ok(st, got.v)
        ELSE LET got == Environment_get(st.heap, globals, name)
             IN  IF got.t = "None" THEN Err(st, "var not found") ELSE Ok(st, got)

RECURSIVE evaluate(_, _), execute(_, _)

(* history variable: what execute_block left in Interpreter.environment    *)
(* when it returned, against what was current when it was called           *)
Returned(st, previous, exit) ==
    [st EXCEPT !.blocks = Append(@, [previous |-> previous,
                                      environment |-> st.environment,
                                      exit |-> exit])]

execute_block_restore(st, previous) == [st EXCEPT !.environment = previous]

RECURSIVE execute_block_loop_mutant_on(_, _, _, _), execute_block_loop(_, _, _, _)

(* a loop that goes on to the next statement whatever the statement yields *)
execute_block_loop_mutant_on(st, statements, i, previous) ==
    LET after(returned) ==
          CASE returned.k = "panic" -> returned
            [] returned.k = "err" ->
                 [returned EXCEPT !.st = Returned(returned.st, previous, "error")]
            [] OTHER ->
                 execute_block_loop_mutant_on(returned.st, statements, i + 1, previous)
    IN  IF i > Len(statements)
        THEN Ok(Returned(execute_block_restore(st, previous), previous, "end"), Nil)
        ELSE after(execute(st, statements[i]))

execute_block_loop(st, statements, i, previous) ==
    LET after(returned) ==
          CASE returned.k = "panic" -> returned
            [] returned.k = "err" ->
                 [returned EXCEPT !.st = Returned(returned.st, previous, "error")]
            [] returned.v.t = "Nil" ->
                 execute_block_loop(returned.st, statements, i + 1, previous)
            [] OTHER ->
                 Ok(Returned(execute_block_restore(returned.st, previous),
                             previous, "early"), returned.v)
    IN  IF i > Len(statements)
        THEN Ok(Returned(execute_block_restore(st, previous), previous, "end"), Nil)
        ELSE after(execute(st, statements[i]))

execute_block(st, statements, env) ==
    LET previous == st.environment
        entered == [Alloc(st, env) EXCEPT !.environment = Fresh(st)]
    IN  execute_block_loop(entered, statements, 1, previous)

(* the parameter scope of LoxFunction::call: a later parameter of the same *)
(* name overwrites an earlier one; a missing argument is Nil               *)
call_environment(f, arguments) ==
    LET names == {f.params[i] : i \in 1..Len(f.params)}
        last(x) == CHOOSE i \in 1..Len(f.params) :
                      f.params[i] = x /\ \A j \in (i + 1)..Len(f.params) : f.params[j] # x
    IN  [parent |-> f.closure,
         values |-> [x \in names |->
                       IF last(x) <= Len(arguments) THEN arguments[last(x)] ELSE Nil]]

closure_this(st, f) ==
    LET this == get_at(st.heap, f.closure, 0, "this")
    IN  CASE this.k = "panic" -> Panic(st, "get_at: unwrap on None")
          [] this.v.t = "None" -> Err(st, "cannot find this")
          [] OTHER -> Ok(st, this.v)

(* the match of LoxFunction::call, lines 102-123 *)
call_result(f, returned) ==
    CASE returned.k = "panic" -> returned
      [] f.is_init -> closure_this(returned.st, f)
      [] returned.k = "ok" -> Ok(returned.st, Nil)
      [] OTHER -> returned

LoxFunction_call(st, f, arguments) ==
    call_result(f, execute_block(st, f.body, call_environment(f, arguments)))

LoxClass_call(st, class, arguments) ==
    LET lox_instance == [t |-> "Instance", class |-> class, fields |-> EmptyMap]
        initializer == find_method(class, "init")
        after(r) == IF r.k # "ok" THEN r ELSE Ok(r.st, lox_instance)
        bound(b) == after(LoxFunction_call(b.st, b.v, arguments))
    IN  IF initializer.t # "None"
        THEN bound(bind(st, initializer, lox_instance))
        ELSE Ok(st, lox_instance)

(* SystemTime::now(): every reading of the clock is one tick after the last *)
Clock_call(st) ==
    IF st.now >= 0
    THEN Ok([st EXCEPT !.now = @ + 1], Number(st.now))
    ELSE Ok(st, Nil)

----------------------------------------------------------------------------
(* impl ExprVisitor for Interpreter                                        *)

visit_literal_expr(st, expr) ==
    IF expr.value.t = "None" THEN Ok(st, Nil) ELSE Ok(st, expr.value)

visit_unary_expr(st, expr) ==
    LET after(right) ==
          CASE right.k # "ok" -> right
            [] expr.operator = "MINUS" ->
                 IF right.v.t = "Number" THEN Ok(right.st, Number(-1 + right.v.n))
                 ELSE Err(right.st, "Can only negate numbers")
            [] expr.operator = "BANG" -> Ok(right.st, Bool(~is_truthy(right.v)))
            [] OTHER -> Err(right.st, "Can only negate numbers or truthy values")
    IN  after(evaluate(st, expr.right))

(* the operator match of visit_binary_expr, both operands evaluated.       *)
(* SLASH is the quotient of two integers that divide exactly.              *)
binary_operation(st, operator, left, right) ==
    LET numbers == left.t = "Number" /\ right.t = "Number"
    IN  CASE operator = "MINUS" ->
               IF numbers THEN Ok(st, Number(left.n - right.n))
               ELSE Err(st, "Can only use - with numbers")
          [] operator = "SLASH" ->
               IF numbers /\ right.n # 0 /\ left.n % right.n = 0
               THEN Ok(st, Number(left.n \div right.n))
               ELSE Err(st, "Can only use / with numbers")
          [] operator = "STAR" ->
               IF numbers THEN Ok(st, Number(left.n * right.n))
               ELSE Err(st, "Can only use / with numbers")
          [] operator = "PLUS" ->
               CASE left.t = "String" /\ right.t = "String" ->
                      Ok(st, String(left.s \o right.s))
                 [] numbers -> Ok(st, Number(left.n + right.n))
                 [] left.t \notin {"Number", "String"} ->
                      Err(st, "Can only use * with numbers and strings")
                 [] right.t \notin {"Number", "String"} -> Err(st, "")
                 [] OTHER -> Err(st, "Both left and right should be number/string")
          [] operator = "GREATER" ->
               IF numbers THEN Ok(st, Bool(left.n > right.n))
               ELSE Err(st, "Can only use > with numbers")
          [] operator = "GREATEREQUAL" ->
               IF numbers THEN Ok(st, Bool(left.n >= right.n))
               ELSE Err(st, "Can only use >= with numbers")
          [] operator = "LESS" ->
               IF numbers THEN Ok(st, Bool(left.n < right.n))
               ELSE Err(st, "Can only use < with numbers")
          [] operator = "LESSEQUAL" ->
               IF numbers THEN Ok(st, Bool(left.n <= right.n))
               ELSE Err(st, "Can only use <= with numbers")
          [] operator = "BANGEQUAL" -> Ok(st, Bool(~is_equal(left, right)))
          [] operator = "EQUALEQUAL" -> Ok(st, Bool(is_equal(left, right)))
          [] OTHER -> Err(st, "Unsupported operator")

visit_binary_expr(st, expr) ==
    LET after_right(left, right) ==
          IF right.k # "ok" THEN right
          ELSE binary_operation(right.st, expr.operator, left.v, right.v)
        after_left(left) ==
          IF left.k # "ok" THEN left
          ELSE after_right(left, evaluate(left.st, expr.right))
    IN  after_left(evaluate(st, expr.left))

(* the loop of lines 319-321: the arguments, left to right *)
RECURSIVE evaluate_arguments(_, _, _, _)
evaluate_arguments(st, arguments, i, acc) ==
    LET after(r) ==
          IF r.k # "ok" THEN r
          ELSE evaluate_arguments(r.st, arguments, i + 1, Append(acc, r.v))
    IN  IF i > Len(arguments) THEN Ok(st, acc)
        ELSE after(evaluate(st, arguments[i]))

arity(callee) ==
    CASE callee.t = "Function" -> LoxFunction_arity(callee)
      [] callee.t = "Class" -> LoxClass_arity(callee)
      [] callee.t = "NativeFunction" -> Clock_arity

call(st, callee, arguments) ==
    CASE callee.t = "Function" -> LoxFunction_call(st, callee, arguments)
      [] callee.t = "Class" -> LoxClass_call(st, callee, arguments)
      [] callee.t = "NativeFunction" -> Clock_call(st)

(* a visit_call_expr that looks at the callee before it evaluates the arguments *)
visit_call_expr_mutant_early(st, expr) ==
    LET after_arguments(callee, arguments) ==
          CASE arguments.k # "ok" -> arguments
            [] arity(callee.v) # Len(arguments.v) ->
                 Err(arguments.st, "Expected n arguments but got m.")
            [] OTHER -> call(arguments.st, callee.v, arguments.v)
        after_callee(callee) ==
          CASE callee.k # "ok" -> callee
            [] callee.v.t \notin {"Function", "Class", "NativeFunction"} ->
                 Err(callee.st, "Can only call functions and classes.")
            [] OTHER -> after_arguments(callee,
                          evaluate_arguments(callee.st, expr.arguments, 1, <<>>))
    IN  after_callee(evaluate(st, expr.callee))

visit_call_expr(st, expr) ==
    LET after_arguments(callee, arguments) ==
          CASE arguments.k # "ok" -> arguments
            [] callee.v.t \notin {"Function", "Class", "NativeFunction"} ->
                 Err(arguments.st, "Can only call functions and classes.")
            [] arity(callee.v) # Len(arguments.v) ->
                 Err(arguments.st, "Expected n arguments but got m.")
            [] OTHER -> call(arguments.st, callee.v, arguments.v)
        after_callee(callee) ==
          IF callee.k # "ok" THEN callee
          ELSE after_arguments(callee,
                               evaluate_arguments(callee.st, expr.arguments, 1, <<>>))
    IN  after_callee(evaluate(st, expr.callee))

visit_grouping_expr(st, expr) == evaluate(st, expr.expression)

visit_var_expr(st, expr) == look_up_variable(st, expr.name, expr)

visit_assign_expr(st, expr) ==
    LET local == get_hash_key(expr)
        after(value) ==
          CASE value.k # "ok" -> value
            [] local.k = "err" -> Err(value.st, "could not find hash of expr")
            [] Has(value.st.locals, local.v) ->
                 LET a == assign_at(value.st.heap, value.st.environment,
                                    value.st.locals[local.v], expr.name, value.v)
                 IN  IF a.k = "panic" THEN Panic(value.st, "assign_at: unwrap on None")
                     ELSE Ok([value.st EXCEPT !.heap = a.h], value.v)
            [] OTHER ->
                 LET a == assign(value.st.heap, globals, expr.name, value.v)
                 IN  IF a.k = "err" THEN Err(value.st, "variable does not exist")
                     ELSE Ok([value.st EXCEPT !.heap = a.h], value.v)
    IN  after(evaluate(st, expr.value))

visit_logical_expr(st, expr) ==
    LET after(left) ==
          CASE left.k # "ok" -> left
            [] expr.operator = "OR" /\ is_truthy(left.v) -> left
            [] expr.operator # "OR" /\ ~is_truthy(left.v) -> left
            [] OTHER -> evaluate(left.st, expr.right)
    IN  after(evaluate(st, expr.left))

visit_get_expr(st, expr) ==
    LET after(object) ==
          CASE object.k # "ok" -> object
            [] object.v.t = "Instance" -> LoxInstance_get(object.st, object.v, expr.name)
            [] OTHER -> Err(object.st, "Only instances have properties.")
    IN  after(evaluate(st, expr.object))

(* the instance evaluate() hands back is a clone (derive(Clone) copies the *)
(* RefCell of the fields); the updated clone is written to the global of   *)
(* the object expression's name                                            *)
visit_set_expr(st, expr) ==
    LET after_value(object, value) ==
          LET instance == LoxInstance_set(object.v, expr.name, value.v)
              a == assign(value.st.heap, globals, expr.object.name, instance)
          IN  CASE value.k # "ok" -> value
                [] expr.object.t # "Variable" ->
                     Panic(value.st, "downcast_ref::<VarExpr>: unwrap on None")
                [] a.k = "err" -> Err(value.st, "variable does not exist")
                [] OTHER -> Ok([value.st EXCEPT !.heap = a.h], value.v)
        after_object(object) ==
          CASE object.k # "ok" -> object
            [] object.v.t = "Instance" ->
                 after_value(object, evaluate(object.st, expr.value))
            [] OTHER -> Err(object.st, "Only instances have fields.")
    IN  after_object(evaluate(st, expr.object))

visit_this_expr(st, expr) == look_up_variable(st, "this", expr)

visit_super_expr(st, expr) ==
    LET local == get_hash_key(expr)
    IN  CASE local.k = "err" -> Err(st, "could not find hash of expr")
          [] ~Has(st.locals, local.v) -> Err(st, "Unexpected error")
          [] OTHER ->
               LET distance == st.locals[local.v]
                   super_class == get_at(st.heap, st.environment, distance, "super")
                   object == get_at(st.heap, st.environment, distance - 1, "this")
                   found_method == find_method(super_class.v, expr.method)
               IN  CASE super_class.k = "panic" -> Panic(st, "get_at: unwrap on None")
                     [] super_class.v.t # "Class" -> Err(st, "Lox super class not found")
                     [] distance = 0 -> Panic(st, "attempt to subtract with overflow")
                     [] object.k = "panic" -> Panic(st, "get_at: unwrap on None")
                     [] object.v.t # "Instance" -> Err(st, "Lox instance not found")
                     [] found_method.t = "None" -> Err(st, "Undefined property")
                     [] OTHER -> LET b == bind(st, found_method, object.v)
                                 IN  Ok(b.st, b.v)

(* Expr::accept (src/src/expr.rs): the visit, then unwrap() *)
accept(st, expr) ==
    CASE expr.t = "Literal" -> visit_literal_expr(st, expr)
      [] expr.t = "Unary" -> visit_unary_expr(st, expr)
      [] expr.t = "Binary" -> visit_binary_expr(st, expr)
      [] expr.t = "Grouping" -> visit_grouping_expr(st, expr)
      [] expr.t = "Variable" -> visit_var_expr(st, expr)
      [] expr.t = "Assign" -> visit_assign_expr(st, expr)
      [] expr.t = "Logical" -> visit_logical_expr(st, expr)
      [] expr.t = "Call" -> visit_call_expr(st, expr)
      [] expr.t = "Get" -> visit_get_expr(st, expr)
      [] expr.t = "Set" -> visit_set_expr(st, expr)
      [] expr.t = "This" -> visit_this_expr(st, expr)
      [] expr.t = "Super" -> visit_super_expr(st, expr)

evaluate(st, expression) ==
    LET unwrap(r) == IF r.k = "err" THEN Panic(r.st, r.msg) ELSE r
    IN  unwrap(accept(st, expression))

----------------------------------------------------------------------------
(* impl StmtVisitor for Interpreter                                        *)

visit_print_statement(st, stmt) ==
    LET after(value) ==
          IF value.k # "ok" THEN value
          ELSE Ok([value.st EXCEPT !.out = Append(@, Display(value.v))], Nil)
    IN  after(evaluate(st, stmt.expression))

visit_expr_statement(st, stmt) ==
    LET after(value) == IF value.k # "ok" THEN value ELSE Ok(value.st, Nil)
    IN  after(evaluate(st, stmt.expression))

visit_var_statement(st, stmt) ==
    LET after(value) ==
          IF value.k # "ok" THEN value
          ELSE Ok([value.st EXCEPT !.heap =
                      define(value.st.heap, value.st.environment, stmt.name, value.v)],
                  Nil)
    IN  IF stmt.value.t = "None"
        THEN Ok([st EXCEPT !.heap = define(st.heap, st.environment, stmt.name, None)], Nil)
        ELSE after(evaluate(st, stmt.value))

visit_block_statement(st, stmt) ==
    execute_block(st, stmt.statements, new_with_parent_environment(st.environment))

visit_if_statement(st, stmt) ==
    LET after(condition) ==
          CASE condition.k # "ok" -> condition
            [] condition.v.t # "Bool" -> Err(condition.st, "condition not boolean")
            [] condition.v.b -> execute(condition.st, stmt.then_branch)
            [] stmt.else_branch.t # "None" -> execute(condition.st, stmt.else_branch)
            [] OTHER -> Ok(condition.st, Nil)
    IN  after(evaluate(st, stmt.condition))

RECURSIVE visit_while_statement(_, _)
visit_while_statement(st, stmt) ==
    LET after_body(body) ==
          IF body.k # "ok" THEN body ELSE visit_while_statement(body.st, stmt)
        after(condition) ==
          CASE condition.k # "ok" -> condition
            [] condition.v.t # "Bool" -> Err(condition.st, "condition should be boolean")
            [] condition.v.b -> after_body(execute(condition.st, stmt.body))
            [] OTHER -> Ok(condition.st, Nil)
    IN  after(evaluate(st, stmt.condition))

visit_function_statement(st, stmt) ==
    LET function == LoxFunction_new(stmt, st.environment, FALSE)
    IN  Ok([st EXCEPT !.heap = define(st.heap, st.environment, stmt.name, function)], Nil)

visit_return_statement(st, stmt) ==
    IF stmt.value.t # "None" THEN evaluate(st, stmt.value)
    ELSE Err(st, "return error")

(* the HashMap of the methods: a later method of the same name replaces an *)
(* earlier one                                                             *)
class_methods(methods, closure) ==
    LET names == {methods[i].name : i \in 1..Len(methods)}
        last(x) == CHOOSE i \in 1..Len(methods) :
                      methods[i].name = x /\ \A j \in (i + 1)..Len(methods) : methods[j].name # x
    IN  [x \in names |->
           LoxFunction_new(methods[last(x)], closure, eq_ignore_ascii_case(x, "init"))]

visit_class_statement(st, stmt) ==
    LET assigned(outer, a) ==
          IF a.k = "err" THEN Err(outer, "variable does not exist")
          ELSE Ok([outer EXCEPT !.heap = a.h], Nil)
        left(outer, lox_class) ==
          assigned(outer, assign(outer.heap, outer.environment, stmt.name, lox_class))
        built(inner, super_class) ==
          left(IF super_class.t # "None"
               THEN [inner EXCEPT !.environment = inner.heap[inner.environment].parent]
               ELSE inner,
               [t |-> "Class", name |-> stmt.name, super_class |-> super_class,
                methods |-> class_methods(stmt.methods, inner.environment)])
        defined(with_name, super_class) ==
          built(IF stmt.super_class.t # "None"
                THEN [Alloc(with_name, [parent |-> with_name.environment,
                                        values |-> Put(EmptyMap, "super", super_class)])
                         EXCEPT !.environment = Fresh(with_name)]
                ELSE with_name,
                super_class)
        after(evaluated) ==
          CASE evaluated.k # "ok" -> evaluated
            [] stmt.super_class.t # "None" /\ evaluated.v.t # "Class" ->
                 Err(evaluated.st, "Superclass must be a class.")
            [] OTHER ->
                 defined([evaluated.st EXCEPT !.heap =
                            define(evaluated.st.heap, evaluated.st.environment,
                                   stmt.name, None)],
                         evaluated.v)
    IN  after(IF stmt.super_class.t # "None"
              THEN evaluate(st, stmt.super_class) ELSE Ok(st, None))

(* Stmt::accept (src/src/stmt.rs) *)
execute(st, statement) ==
    CASE statement.t = "Print" -> visit_print_statement(st, statement)
      [] statement.t = "Expression" -> visit_expr_statement(st, statement)
      [] statement.t = "Var" -> visit_var_statement(st, statement)
      [] statement.t = "Block" -> visit_block_statement(st, statement)
      [] statement.t = "If" -> visit_if_statement(st, statement)
      [] statement.t = "While" -> visit_while_statement(st, statement)
      [] statement.t = "Function" -> visit_function_statement(st, statement)
      [] statement.t = "Return" -> visit_return_statement(st, statement)
      [] statement.t = "Class" -> visit_class_statement(st, statement)

----------------------------------------------------------------------------
(* Resolver (src/src/resolver.rs).  The resolver state rs is the record    *)
(* [scopes, current_function, current_class, locals]; locals is the side   *)
(* table of the interpreter the resolver holds a reference to.  A result   *)
(* is [rs, k, msg].                                                        *)

StackFrames == 3   \* frames of one visit the host stack holds before it overflows

ROk(rs) == [rs |-> rs, k |-> "ok", msg |-> ""]
RErr(rs, msg) == [rs |-> rs, k |-> "err", msg |-> msg]
RPanic(rs, msg) == [rs |-> rs, k |-> "panic", msg |-> msg]
(* Expr::accept: unwrap() of the visit's result *)
RUnwrap(r) == IF r.k = "err" THEN RPanic(r.rs, r.msg) ELSE r

Resolver_new(table) ==
    [scopes |-> <<>>, current_function |-> "None", current_class |-> "None",
     locals |-> table]

begin_scope(rs) == [rs EXCEPT !.scopes = Append(@, EmptyMap)]
end_scope(rs) == [rs EXCEPT !.scopes = SubSeq(@, 1, Len(@) - 1)]

(* a declare that takes a second declaration of the name for a new one *)
Resolver_declare_mutant_again(rs, name) ==
    IF rs.scopes = <<>> THEN ROk(rs)
    ELSE ROk([rs EXCEPT !.scopes[Len(rs.scopes)] = Put(@, name, FALSE)])

Resolver_declare(rs, name) ==
    IF rs.scopes = <<>> THEN ROk(rs)
    ELSE IF Has(rs.scopes[Len(rs.scopes)], name)
         THEN RErr(rs, "Already a variable with this name in this scope.")
         ELSE ROk([rs EXCEPT !.scopes[Len(rs.scopes)] = Put(@, name, FALSE)])

Resolver_define(rs, name) ==
    IF rs.scopes = <<>> THEN ROk(rs)
    ELSE ROk([rs EXCEPT !.scopes[Len(rs.scopes)] = Put(@, name, TRUE)])

(* scopes.iter().rev().enumerate(): hop 0 is the innermost scope *)
RECURSIVE resolve_local_from(_, _, _, _)
resolve_local_from(rs, expr, name, hop) ==
    IF hop >= Len(rs.scopes) THEN ROk(rs)
    ELSE IF Has(rs.scopes[Len(rs.scopes) - hop], name)
         THEN LET r == Interpreter_resolve(rs.locals, expr, hop)
              IN  IF r.k = "err" THEN RErr(rs, "could not find hash of expr")
                  ELSE ROk([rs EXCEPT !.locals = r.locals])
         ELSE resolve_local_from(rs, expr, name, hop + 1)

resolve_local(rs, expr, name) == resolve_local_from(rs, expr, name, 0)

RECURSIVE Resolver_accept(_, _), Resolver_execute(_, _)

(* the results of the sub-expressions' accept are dropped; a panic is not *)
RECURSIVE Resolver_accept_all(_, _, _)
Resolver_accept_all(rs, exprs, i) ==
    LET after(r) == IF r.k # "ok" THEN r ELSE Resolver_accept_all(r.rs, exprs, i + 1)
    IN  IF i > Len(exprs) THEN ROk(rs)
        ELSE after(Resolver_accept(rs, exprs[i]))

Resolver_visit_var_expr(rs, expr) ==
    IF rs.scopes # <<>>
       /\ Has(rs.scopes[Len(rs.scopes)], expr.name)
       /\ rs.scopes[Len(rs.scopes)][expr.name] = FALSE
    THEN RErr(rs, "Can't read local variable in its own initializer.")
    ELSE resolve_local(rs, expr, expr.name)

(* line 163 hands the assignment itself back to accept, which calls this   *)
(* visit again: every call nests one more frame until the stack is spent   *)
RECURSIVE Resolver_visit_assign_expr(_, _, _)
Resolver_visit_assign_expr(rs, expr, frames) ==
    LET after(again) ==
          IF again.k # "ok" THEN again
          ELSE resolve_local(again.rs, expr, expr.name)
    IN  IF frames >= StackFrames THEN RPanic(rs, "stack overflow")
        ELSE after(RUnwrap(Resolver_visit_assign_expr(rs, expr, frames + 1)))

Resolver_visit_this_expr(rs, expr) ==
    IF rs.current_class = "None" THEN RErr(rs, "Can't use 'this' outside of a class.")
    ELSE resolve_local(rs, expr, "this")

Resolver_visit_super_expr(rs, expr) == resolve_local(rs, expr, "super")

Resolver_accept(rs, expr) ==
    RUnwrap(
      CASE expr.t = "Literal" -> ROk(rs)
        [] expr.t = "Unary" -> Resolver_accept_all(rs, <<expr.right>>, 1)
        [] expr.t = "Binary" -> Resolver_accept_all(rs, <<expr.left, expr.right>>, 1)
        [] expr.t = "Grouping" -> Resolver_accept_all(rs, <<expr.expression>>, 1)
        [] expr.t = "Variable" -> Resolver_visit_var_expr(rs, expr)
        [] expr.t = "Assign" -> Resolver_visit_assign_expr(rs, expr, 1)
        [] expr.t = "Logical" -> Resolver_accept_all(rs, <<expr.left, expr.right>>, 1)
        [] expr.t = "Call" -> Resolver_accept_all(rs, <<expr.callee>> \o expr.arguments, 1)
        [] expr.t = "Get" -> Resolver_accept_all(rs, <<expr.object>>, 1)
        [] expr.t = "Set" -> Resolver_accept_all(rs, <<expr.value, expr.object>>, 1)
        [] expr.t = "This" -> Resolver_visit_this_expr(rs, expr)
        [] expr.t = "Super" -> Resolver_visit_super_expr(rs, expr))

(* `stmt.accept(self)?` over a list of statements *)
RECURSIVE Resolver_execute_all(_, _, _)
Resolver_execute_all(rs, stmts, i) ==
    LET after(r) == IF r.k # "ok" THEN r ELSE Resolver_execute_all(r.rs, stmts, i + 1)
    IN  IF i > Len(stmts) THEN ROk(rs)
        ELSE after(Resolver_execute(rs, stmts[i]))

RECURSIVE declare_params(_, _, _)
declare_params(rs, params, i) ==
    LET after(d) ==
          IF d.k # "ok" THEN d
          ELSE declare_params(Resolver_define(d.rs, params[i]).rs, params, i + 1)
    IN  IF i > Len(params) THEN ROk(rs)
        ELSE after(Resolver_declare(rs, params[i]))

(* a resolve_function that leaves current_function at the kind it has set *)
resolve_function_mutant_kept(rs, stmt, function_type) ==
    LET after_body(body) ==
          IF body.k # "ok" THEN body
          ELSE ROk(end_scope(body.rs))
        after_params(params) ==
          IF params.k # "ok" THEN params
          ELSE after_body(Resolver_execute_all(params.rs, stmt.body, 1))
    IN  after_params(declare_params(
          begin_scope([rs EXCEPT !.current_function = function_type]), stmt.params, 1))

resolve_function(rs, stmt, function_type) ==
    LET enclosing_function == rs.current_function
        after_body(body) ==
          IF body.k # "ok" THEN body
          ELSE ROk([end_scope(body.rs) EXCEPT !.current_function = enclosing_function])
        after_params(params) ==
          IF params.k # "ok" THEN params
          ELSE after_body(Resolver_execute_all(params.rs, stmt.body, 1))
    IN  after_params(declare_params(
          begin_scope([rs EXCEPT !.current_function = function_type]), stmt.params, 1))

Resolver_visit_expression(rs, expr) ==
    LET after(r) == IF r.k # "ok" THEN r ELSE ROk(r.rs)
    IN  after(Resolver_accept(rs, expr))

Resolver_visit_var_statement(rs, stmt) ==
    LET after_initializer(initializer) ==
          IF initializer.k # "ok" THEN initializer
          ELSE Resolver_define(initializer.rs, stmt.name)
        after(declared) ==
          CASE declared.k # "ok" -> declared
            [] stmt.value.t # "None" ->
                 after_initializer(Resolver_accept(declared.rs, stmt.value))
            [] OTHER -> after_initializer(ROk(declared.rs))
    IN  after(Resolver_declare(rs, stmt.name))

Resolver_visit_block_statement(rs, stmt) ==
    LET after(r) == IF r.k # "ok" THEN r ELSE ROk(end_scope(r.rs))
    IN  after(Resolver_execute_all(begin_scope(rs), stmt.statements, 1))

Resolver_visit_if_statement(rs, stmt) ==
    LET after_then(then_branch) ==
          CASE then_branch.k # "ok" -> then_branch
            [] stmt.else_branch.t # "None" ->
                 Resolver_execute(then_branch.rs, stmt.else_branch)
            [] OTHER -> ROk(then_branch.rs)
        after(condition) ==
          IF condition.k # "ok" THEN condition
          ELSE after_then(Resolver_execute(condition.rs, stmt.then_branch))
    IN  after(Resolver_accept(rs, stmt.condition))

Resolver_visit_while_statement(rs, stmt) ==
    LET after(condition) ==
          IF condition.k # "ok" THEN condition
          ELSE Resolver_execute(condition.rs, stmt.body)
    IN  after(Resolver_accept(rs, stmt.condition))

Resolver_visit_function_statement(rs, stmt) ==
    LET after(declared) ==
          IF declared.k # "ok" THEN declared
          ELSE resolve_function(Resolver_define(declared.rs, stmt.name).rs, stmt,
                                "Function")
    IN  after(Resolver_declare(rs, stmt.name))

(* a resolver without the initializer test of lines 268-271 *)
return_in_initializer_mutant(rs, stmt) == FALSE

(* lines 268-271: a value returned while the kind is Initializer *)
return_in_initializer(rs, stmt) ==
    stmt.value.t # "None" /\ rs.current_function = "Initializer"

Resolver_visit_return_statement(rs, stmt) ==
    CASE rs.current_function = "None" -> RErr(rs, "Can't return from top-level code.")
      [] return_in_initializer(rs, stmt) ->
           RErr(rs, "Can't return a value from an initializer.")
      [] stmt.value.t # "None" -> Resolver_visit_expression(rs, stmt.value)
      [] OTHER -> ROk(rs)

RECURSIVE resolve_methods(_, _, _)
resolve_methods(rs, methods, i) ==
    LET after(r) == IF r.k # "ok" THEN r ELSE resolve_methods(r.rs, methods, i + 1)
    IN  IF i > Len(methods) THEN ROk(rs)
        ELSE after(resolve_function(rs, methods[i],
                                    IF eq_ignore_ascii_case(methods[i].name, "init")
                                    THEN "Initializer" ELSE "Method"))

Resolver_visit_class_statement(rs, stmt) ==
    LET enclosing_class == rs.current_class
        has_super == stmt.super_class.t # "None"
        after_methods(methods) ==
          IF methods.k # "ok" THEN methods
          ELSE ROk([(IF has_super THEN end_scope(end_scope(methods.rs))
                     ELSE end_scope(methods.rs))
                       EXCEPT !.current_class = enclosing_class])
        in_super_scope(super_scope) ==
          after_methods(resolve_methods(
            Resolver_define(begin_scope(super_scope), "this").rs, stmt.methods, 1))
        after_super(super_class) ==
          CASE super_class.k # "ok" -> super_class
            [] has_super ->
                 in_super_scope(Resolver_define(begin_scope(super_class.rs), "super").rs)
            [] OTHER -> in_super_scope(super_class.rs)
        after_define(defined) ==
          CASE has_super /\ stmt.super_class.t # "Variable" ->
                 RPanic(defined, "downcast_ref::<VarExpr>: unwrap on None")
            [] has_super /\ eq_ignore_ascii_case(stmt.name, stmt.super_class.name) ->
                 RErr(defined, "A class can't inherit from itself.")
            [] has_super -> after_super(Resolver_accept(defined, stmt.super_class))
            [] OTHER -> after_super(ROk(defined))
        after(declared) ==
          IF declared.k # "ok" THEN declared
          ELSE after_define(Resolver_define(declared.rs, stmt.name).rs)
    IN  after(Resolver_declare([rs EXCEPT !.current_class = "Class"], stmt.name))

Resolver_execute(rs, stmt) ==
    CASE stmt.t = "Print" -> Resolver_visit_expression(rs, stmt.expression)
      [] stmt.t = "Expression" -> Resolver_visit_expression(rs, stmt.expression)
      [] stmt.t = "Var" -> Resolver_visit_var_statement(rs, stmt)
      [] stmt.t = "Block" -> Resolver_visit_block_statement(rs, stmt)
      [] stmt.t = "If" -> Resolver_visit_if_statement(rs, stmt)
      [] stmt.t = "While" -> Resolver_visit_while_statement(rs, stmt)
      [] stmt.t = "Function" -> Resolver_visit_function_statement(rs, stmt)
      [] stmt.t = "Return" -> Resolver_visit_return_statement(rs, stmt)
      [] stmt.t = "Class" -> Resolver_visit_class_statement(rs, stmt)

Resolver_resolve(rs, statements) == Resolver_execute_all(rs, statements, 1)

----------------------------------------------------------------------------
(* Syntax trees (src/src/expr.rs, src/src/stmt.rs).  A Variable, Assign,   *)
(* This or Super node carries the line of its token; the programs below    *)
(* are written on one line, the line a new Scanner starts with.            *)

FirstLine == 0

Lit(v) == [t |-> "Literal", value |-> v]
Unary(operator, right) == [t |-> "Unary", operator |-> operator, right |-> right]
Binary(left, operator, right) ==
    [t |-> "Binary", left |-> left, operator |-> operator, right |-> right]
Grouping(e) == [t |-> "Grouping", expression |-> e]
VarAt(name, ln) == [t |-> "Variable", name |-> name, line |-> ln]
Var(name) == VarAt(name, FirstLine)
AssignAt(name, ln, value) == [t |-> "Assign", name |-> name, line |-> ln, value |-> value]
Assign(name, value) == AssignAt(name, FirstLine, value)
Logical(left, operator, right) ==
    [t |-> "Logical", left |-> left, operator |-> operator, right |-> right]
Call(callee, arguments) == [t |-> "Call", callee |-> callee, arguments |-> arguments]
Get(object, name) == [t |-> "Get", object |-> object, name |-> name]
Set(object, name, value) ==
    [t |-> "Set", object |-> object, name |-> name, value |-> value]
ThisAt(ln) == [t |-> "This", line |-> ln]
This == ThisAt(FirstLine)
SuperAt(ln, method) == [t |-> "Super", line |-> ln, method |-> method]
Super(method) == SuperAt(FirstLine, method)

PrintStmt(e) == [t |-> "Print", expression |-> e]
ExprStmt(e) == [t |-> "Expression", expression |-> e]
VarStmt(name, value) == [t |-> "Var", name |-> name, value |-> value]
BlockStmt(statements) == [t |-> "Block", statements |-> statements]
IfStmt(condition, then_branch, else_branch) ==
    [t |-> "If", condition |-> condition, then_branch |-> then_branch,
     else_branch |-> else_branch]
WhileStmt(condition, body) == [t |-> "While", condition |-> condition, body |-> body]
FunctionStmt(name, params, body) ==
    [t |-> "Function", name |-> name, params |-> params, body |-> body]
ReturnStmt(value) == [t |-> "Return", value |-> value]
ClassStmt(name, super_class, methods) ==
    [t |-> "Class", name |-> name, super_class |-> super_class, methods |-> methods]

----------------------------------------------------------------------------
(* The programs the model runs                                             *)

MaxNumber == 2
MaxFib == 4

TestValues ==
    {Nil, Bool(TRUE), Bool(FALSE), String("a")} \cup {Number(n) : n \in 0..MaxNumber}

\* { var a = v; print a; }  fun f() { return w; }  f();  { if (v) print w; }
BlockProgram(v, w) ==
    << BlockStmt(<<VarStmt("a", Lit(v)), PrintStmt(Var("a"))>>),
       FunctionStmt("f", <<>>, <<ReturnStmt(Lit(w))>>),
       ExprStmt(Call(Var("f"), <<>>)),
       BlockStmt(<<IfStmt(Lit(v), PrintStmt(Lit(w)), None)>>) >>

\* fun f() { return v; }  print f();
ReturnProgram(v) ==
    << FunctionStmt("f", <<>>, <<ReturnStmt(Lit(v))>>),
       PrintStmt(Call(Var("f"), <<>>)) >>

\* fun fib(n) { if (n < 2) return n; return fib(n-1) + fib(n-2); }  print fib(k);
FibProgram(k) ==
    << FunctionStmt("fib", <<"n">>,
         << IfStmt(Binary(Var("n"), "LESS", Lit(Number(2))), ReturnStmt(Var("n")), None),
            ReturnStmt(Binary(
              Call(Var("fib"), <<Binary(Var("n"), "MINUS", Lit(Number(1)))>>),
              "PLUS",
              Call(Var("fib"), <<Binary(Var("n"), "MINUS", Lit(Number(2)))>>))) >>),
       PrintStmt(Call(Var("fib"), <<Lit(Number(k))>>)) >>

\* fun makeCounter() { var n = 0; fun c() { n = n + 1; return n; } return c; }
\* var a = makeCounter(); var b = makeCounter(); print a(); print a(); print b();
MakeCounterProgram ==
    << FunctionStmt("makeCounter", <<>>,
         << VarStmt("n", Lit(Number(0))),
            FunctionStmt("c", <<>>,
              << ExprStmt(Assign("n", Binary(Var("n"), "PLUS", Lit(Number(1))))),
                 ReturnStmt(Var("n")) >>),
            ReturnStmt(Var("c")) >>),
       VarStmt("a", Call(Var("makeCounter"), <<>>)),
       VarStmt("b", Call(Var("makeCounter"), <<>>)),
       PrintStmt(Call(Var("a"), <<>>)),
       PrintStmt(Call(Var("a"), <<>>)),
       PrintStmt(Call(Var("b"), <<>>)) >>

\* var x = v; fun f() { print x; }  { var x = w; f(); }
ClosureProgram(v, w) ==
    << VarStmt("x", Lit(v)),
       FunctionStmt("f", <<>>, <<PrintStmt(Var("x"))>>),
       BlockStmt(<<VarStmt("x", Lit(w)), ExprStmt(Call(Var("f"), <<>>))>>) >>

\* var x = v; fun f() { print x; }  { var x = w; print x; f(); }
ClosureReadProgram(v, w) ==
    << VarStmt("x", Lit(v)),
       FunctionStmt("f", <<>>, <<PrintStmt(Var("x"))>>),
       BlockStmt(<<VarStmt("x", Lit(w)), PrintStmt(Var("x")),
                   ExprStmt(Call(Var("f"), <<>>))>>) >>

\* var a = v; { var a = w; print a; }  print a;
ShadowProgram(v, w) ==
    << VarStmt("a", Lit(v)),
       BlockStmt(<<VarStmt("a", Lit(w)), PrintStmt(Var("a"))>>),
       PrintStmt(Var("a")) >>

\* fun side() { print "side"; }  print v or side();  print w and side();
LogicalProgram(v, w) ==
    << FunctionStmt("side", <<>>, <<PrintStmt(Lit(String("side")))>>),
       PrintStmt(Logical(Lit(v), "OR", Call(Var("side"), <<>>))),
       PrintStmt(Logical(Lit(w), "AND", Call(Var("side"), <<>>))) >>

\* class C { init() { return; print "after"; } }  print C();  var x = v;
InitReturnProgram(v) ==
    << ClassStmt("C", None,
         <<FunctionStmt("init", <<>>,
             <<ReturnStmt(None), PrintStmt(Lit(String("after")))>>)>>),
       PrintStmt(Call(Var("C"), <<>>)),
       VarStmt("x", Lit(v)) >>

\* class C { init() { return v; } }  print C();
InitReturnValueProgram(v) ==
    << ClassStmt("C", None,
         <<FunctionStmt("init", <<>>, <<ReturnStmt(Lit(v))>>)>>),
       PrintStmt(Call(Var("C"), <<>>)) >>

\* class C { init(x) { this.x = x; } }  print C(v).x;
InitFieldProgram(v) ==
    << ClassStmt("C", None,
         <<FunctionStmt("init", <<"x">>,
             <<ExprStmt(Set(This, "x", Var("x")))>>)>>),
       PrintStmt(Get(Call(Var("C"), <<Lit(v)>>), "x")) >>

\* class P {}  var p = P();  var q = p;  p.x = v;  print p.x;  print q.x;
TwoReferencesProgram(v) ==
    << ClassStmt("P", None, <<>>),
       VarStmt("p", Call(Var("P"), <<>>)),
       VarStmt("q", Var("p")),
       ExprStmt(Set(Var("p"), "x", Lit(v))),
       PrintStmt(Get(Var("p"), "x")),
       PrintStmt(Get(Var("q"), "x")) >>

\* class P {}  var p = v;  { var p = P(); p.x = w; print p.x; }  print p;
ShadowedSetProgram(v, w) ==
    << ClassStmt("P", None, <<>>),
       VarStmt("p", Lit(v)),
       BlockStmt(<< VarStmt("p", Call(Var("P"), <<>>)),
                    ExprStmt(Set(Var("p"), "x", Lit(w))),
                    PrintStmt(Get(Var("p"), "x")) >>),
       PrintStmt(Var("p")) >>

\* class A { m() { print "A.m"; print this.tag; } }
\* class B < A { m() { print "B.m"; }  n() { super.m(); } }
\* class C < B { m() { print "C.m"; } }
\* var c = C();  c.tag = v;  c.n();
SuperProgram(v) ==
    << ClassStmt("A", None,
         <<FunctionStmt("m", <<>>,
             <<PrintStmt(Lit(String("A.m"))), PrintStmt(Get(This, "tag"))>>)>>),
       ClassStmt("B", Var("A"),
         << FunctionStmt("m", <<>>, <<PrintStmt(Lit(String("B.m")))>>),
            FunctionStmt("n", <<>>, <<ExprStmt(Call(Super("m"), <<>>))>>) >>),
       ClassStmt("C", Var("B"),
         <<FunctionStmt("m", <<>>, <<PrintStmt(Lit(String("C.m")))>>)>>),
       VarStmt("c", Call(Var("C"), <<>>)),
       ExprStmt(Set(Var("c"), "tag", Lit(v))),
       ExprStmt(Call(Get(Var("c"), "n"), <<>>)) >>

\* class A { m() { print "A.m"; } }
\* class B < A { m() { super.m(); }  n() { { super.m(); } } }
\* B().m();
SuperNestedProgram ==
    << ClassStmt("A", None,
         <<FunctionStmt("m", <<>>, <<PrintStmt(Lit(String("A.m")))>>)>>),
       ClassStmt("B", Var("A"),
         << FunctionStmt("m", <<>>, <<ExprStmt(Call(Super("m"), <<>>))>>),
            FunctionStmt("n", <<>>,
              <<BlockStmt(<<ExprStmt(Call(Super("m"), <<>>))>>)>>) >>),
       ExprStmt(Call(Get(Call(Var("B"), <<>>), "m"), <<>>)) >>

\* fun f() {}  class K {}  var i = K();
\* print !v;  print !f;  print !K;  print !i;  print !clock;
NotProgram(v) ==
    << FunctionStmt("f", <<>>, <<>>),
       ClassStmt("K", None, <<>>),
       VarStmt("i", Call(Var("K"), <<>>)),
       PrintStmt(Unary("BANG", Lit(v))),
       PrintStmt(Unary("BANG", Var("f"))),
       PrintStmt(Unary("BANG", Var("K"))),
       PrintStmt(Unary("BANG", Var("i"))),
       PrintStmt(Unary("BANG", Var("clock"))) >>

\* print v == w;  print v != w;
EqualProgram(v, w) ==
    << PrintStmt(Binary(Lit(v), "EQUALEQUAL", Lit(w))),
       PrintStmt(Binary(Lit(v), "BANGEQUAL", Lit(w))) >>

\* var g = v; { var a = w; { var b = v; print a; print b; print g; } }
HopProgram(v, w) ==
    << VarStmt("g", Lit(v)),
       BlockStmt(<<VarStmt("a", Lit(w)),
                   BlockStmt(<<VarStmt("b", Lit(v)),
                               PrintStmt(Var("a")),
                               PrintStmt(Var("b")),
                               PrintStmt(Var("g"))>>)>>) >>

\* { var a = v; print a; { print a; } }
DepthProgram(v) ==
    << BlockStmt(<<VarStmt("a", Lit(v)),
                   PrintStmt(Var("a")),
                   BlockStmt(<<PrintStmt(Var("a"))>>)>>) >>

\* fun callee() { print "callee"; }  fun one() { print "one"; }
\* fun two() { print "two"; }  fun f(a) { print "body"; }
\* class K { init(a) { print "body"; } }
Callees ==
    << FunctionStmt("callee", <<>>, <<PrintStmt(Lit(String("callee")))>>),
       FunctionStmt("one", <<>>, <<PrintStmt(Lit(String("one")))>>),
       FunctionStmt("two", <<>>, <<PrintStmt(Lit(String("two")))>>),
       FunctionStmt("f", <<"a">>, <<PrintStmt(Lit(String("body")))>>),
       ClassStmt("K", None,
                 <<FunctionStmt("init", <<"a">>, <<PrintStmt(Lit(String("body")))>>)>>) >>

OneTwo == <<Call(Var("one"), <<>>), Call(Var("two"), <<>>)>>

\* v(one(), two());
NotCallableProgram(v) == Append(Callees, ExprStmt(Call(Lit(v), OneTwo)))

\* callee()(one(), two());
CalleeFirstProgram == Append(Callees, ExprStmt(Call(Call(Var("callee"), <<>>), OneTwo)))

\* f();  f(one());  f(one(), two());
ArityProgram(n) == Append(Callees, ExprStmt(Call(Var("f"), SubSeq(OneTwo, 1, n))))

\* K();  K(one());  K(one(), two());
ClassArityProgram(n) == Append(Callees, ExprStmt(Call(Var("K"), SubSeq(OneTwo, 1, n))))

\* clock(one());
ClockArityProgram == Append(Callees, ExprStmt(Call(Var("clock"), SubSeq(OneTwo, 1, 1))))

\* if (v) print "then";  print "after";
FailingBody(v) ==
    << IfStmt(Lit(v), PrintStmt(Lit(String("then"))), None),
       PrintStmt(Lit(String("after"))) >>

\* -v;  print "after";
NegatingBody(v) ==
    << ExprStmt(Unary("MINUS", Lit(v))),
       PrintStmt(Lit(String("after"))) >>

\* fun f() { if (v) print "then"; print "after"; }  f();  print "next";
FunctionErrorProgram(v) ==
    << FunctionStmt("f", <<>>, FailingBody(v)),
       ExprStmt(Call(Var("f"), <<>>)),
       PrintStmt(Lit(String("next"))) >>

\* fun f() { -v; print "after"; }  f();  print "next";
FunctionNegateProgram(v) ==
    << FunctionStmt("f", <<>>, NegatingBody(v)),
       ExprStmt(Call(Var("f"), <<>>)),
       PrintStmt(Lit(String("next"))) >>

\* class K { init() { if (v) print "then"; print "after"; } }  var k = K();  print "next";
InitErrorProgram(v) ==
    << ClassStmt("K", None, <<FunctionStmt("init", <<>>, FailingBody(v))>>),
       VarStmt("k", Call(Var("K"), <<>>)),
       PrintStmt(Lit(String("next"))) >>

\* { var a = v; var a = w; }
RedeclareVarProgram(v, w) ==
    << BlockStmt(<<VarStmt("a", Lit(v)), VarStmt("a", Lit(w))>>) >>

\* { var a = v; fun a() {} }
RedeclareFunctionProgram(v) ==
    << BlockStmt(<<VarStmt("a", Lit(v)), FunctionStmt("a", <<>>, <<>>)>>) >>

\* fun f(a, a) {}
RedeclareParamProgram == << FunctionStmt("f", <<"a", "a">>, <<>>) >>

\* { var a = v; { var a = w; print a; } }
NestedDeclareProgram(v, w) ==
    << BlockStmt(<<VarStmt("a", Lit(v)),
                   BlockStmt(<<VarStmt("a", Lit(w)), PrintStmt(Var("a"))>>)>>) >>

\* { var a = a; }
OwnInitializerProgram == << BlockStmt(<<VarStmt("a", Var("a"))>>) >>

\* { var a = !a; }
OwnInitializerNestedProgram ==
    << BlockStmt(<<VarStmt("a", Unary("BANG", Var("a")))>>) >>

\* { var a = v; { var a = a; } }
OwnInitializerShadowProgram(v) ==
    << BlockStmt(<<VarStmt("a", Lit(v)), BlockStmt(<<VarStmt("a", Var("a"))>>)>>) >>

OwnInitializers ==
    {OwnInitializerProgram, OwnInitializerNestedProgram}
    \cup {OwnInitializerShadowProgram(v) : v \in TestValues}

\* return;
TopLevelReturnProgram == << ReturnStmt(None) >>

\* fun f() { return v; }  return v;
ReturnAfterFunctionProgram(v) ==
    << FunctionStmt("f", <<>>, <<ReturnStmt(Lit(v))>>), ReturnStmt(Lit(v)) >>

\* class K { init() { fun g() { return v; } return; } }
InitNestedProgram(v) ==
    << ClassStmt("K", None,
         <<FunctionStmt("init", <<>>,
             <<FunctionStmt("g", <<>>, <<ReturnStmt(Lit(v))>>), ReturnStmt(None)>>)>>) >>

\* class K { init() { fun g() { return v; } return v; } }
InitNestedValueProgram(v) ==
    << ClassStmt("K", None,
         <<FunctionStmt("init", <<>>,
             <<FunctionStmt("g", <<>>, <<ReturnStmt(Lit(v))>>), ReturnStmt(Lit(v))>>)>>) >>

\* { var y = v; var z = w; y = z; print y; }
AssignProgram(v, w) ==
    << BlockStmt(<<VarStmt("y", Lit(v)), VarStmt("z", Lit(w)),
                   ExprStmt(Assign("y", Var("z"))), PrintStmt(Var("y"))>>) >>

\* print "first";  if (true) return v;  print "later";
IfReturnBody(v) ==
    << PrintStmt(Lit(String("first"))),
       IfStmt(Lit(Bool(TRUE)), ReturnStmt(Lit(v)), None),
       PrintStmt(Lit(String("later"))) >>

\* print "first";  { return v; print "inner"; }  print "later";
BlockReturnBody(v) ==
    << PrintStmt(Lit(String("first"))),
       BlockStmt(<<ReturnStmt(Lit(v)), PrintStmt(Lit(String("inner")))>>),
       PrintStmt(Lit(String("later"))) >>

\* fun f() { <body> }  f();  print "next";
EarlyExitProgram(body) ==
    << FunctionStmt("f", <<>>, body),
       ExprStmt(Call(Var("f"), <<>>)),
       PrintStmt(Lit(String("next"))) >>

\* print -v;  print -(-v);
NegateProgram(v) ==
    << PrintStmt(Unary("MINUS", Lit(v))),
       PrintStmt(Unary("MINUS", Grouping(Unary("MINUS", Lit(v))))) >>

\* var t = clock() + 3;
\* fun f() { while (clock() < t) { print "body"; return v; }  print "after"; }
\* f();  print "next";
ReturnInLoopProgram(v) ==
    << VarStmt("t", Binary(Call(Var("clock"), <<>>), "PLUS", Lit(Number(3)))),
       FunctionStmt("f", <<>>,
         << WhileStmt(Binary(Call(Var("clock"), <<>>), "LESS", Var("t")),
                      BlockStmt(<<PrintStmt(Lit(String("body"))), ReturnStmt(Lit(v))>>)),
            PrintStmt(Lit(String("after"))) >>),
       ExprStmt(Call(Var("f"), <<>>)),
       PrintStmt(Lit(String("next"))) >>

Programs ==
    {BlockProgram(v, w) : v \in TestValues, w \in TestValues}
    \cup {ReturnInLoopProgram(v) : v \in TestValues}
    \cup {NegateProgram(v) : v \in TestValues}
    \cup {EarlyExitProgram(IfReturnBody(v)) : v \in TestValues}
    \cup {EarlyExitProgram(BlockReturnBody(v)) : v \in TestValues}
    \cup {AssignProgram(v, w) : v \in TestValues, w \in TestValues}
    \cup {TopLevelReturnProgram}
    \cup {ReturnAfterFunctionProgram(v) : v \in TestValues}
    \cup {InitNestedProgram(v) : v \in TestValues}
    \cup {InitNestedValueProgram(v) : v \in TestValues}
    \cup OwnInitializers
    \cup {RedeclareVarProgram(v, w) : v \in TestValues, w \in TestValues}
    \cup {RedeclareFunctionProgram(v) : v \in TestValues}
    \cup {RedeclareParamProgram}
    \cup {NestedDeclareProgram(v, w) : v \in TestValues, w \in TestValues}
    \cup {FunctionErrorProgram(v) : v \in TestValues}
    \cup {FunctionNegateProgram(v) : v \in TestValues}
    \cup {InitErrorProgram(v) : v \in TestValues}
    \cup {NotCallableProgram(v) : v \in TestValues}
    \cup {CalleeFirstProgram, ClockArityProgram}
    \cup {ArityProgram(n) : n \in 0..2}
    \cup {ClassArityProgram(n) : n \in 0..2}
    \cup {HopProgram(v, w) : v \in TestValues, w \in TestValues}
    \cup {DepthProgram(v) : v \in TestValues}
    \cup {NotProgram(v) : v \in TestValues}
    \cup {EqualProgram(v, w) : v \in TestValues, w \in TestValues}
    \cup {InitReturnProgram(v) : v \in TestValues}
    \cup {InitReturnValueProgram(v) : v \in TestValues}
    \cup {InitFieldProgram(v) : v \in TestValues}
    \cup {TwoReferencesProgram(v) : v \in TestValues}
    \cup {ShadowedSetProgram(v, w) : v \in TestValues, w \in TestValues}
    \cup {SuperProgram(v) : v \in TestValues}
    \cup {SuperNestedProgram}
    \cup {ReturnProgram(v) : v \in TestValues}
    \cup {FibProgram(k) : k \in 0..MaxFib}
    \cup {MakeCounterProgram}
    \cup {ClosureProgram(v, w) : v \in TestValues, w \in TestValues}
    \cup {ClosureReadProgram(v, w) : v \in TestValues, w \in TestValues}
    \cup {ShadowProgram(v, w) : v \in TestValues, w \in TestValues}
    \cup {LogicalProgram(v, w) : v \in TestValues, w \in TestValues}

ClockValues == {0}

----------------------------------------------------------------------------
(* The pipeline: Resolver::resolve over the program, then                  *)
(* Interpreter::interpret, one top-level statement per step                *)

st == [heap |-> heap, environment |-> environment, locals |-> locals, out |-> out,
       blocks |-> blocks, now |-> now]

ScannerIdle ==
    /\ source = <<>> /\ tokens = <<>> /\ start = 0 /\ current = 0 /\ line = 0
    /\ scan_pc = "idle" /\ spins = 0

EnvironmentIdle == last_assign = <<>>

ParserIdle ==
    /\ parser_tokens = <<>> /\ parser_current = 0 /\ parsed = <<>>
    /\ parser_pc = "idle"

Init ==
    /\ program \in Programs
    /\ phase = "parsed"
    /\ pc = 1
    /\ \E clock \in ClockValues :
         LET new == Interpreter_new(clock)
         IN  /\ heap = new.heap /\ environment = new.environment /\ locals = new.locals
             /\ out = new.out /\ blocks = new.blocks /\ now = new.now
    /\ scopes = <<>> /\ current_function = "None" /\ current_class = "None"
    /\ ScannerIdle
    /\ EnvironmentIdle
    /\ ParserIdle

Resolve ==
    /\ phase = "parsed"
    /\ LET after(r) ==
             /\ phase' = CASE r.k = "ok" -> "resolved"
                           [] r.k = "err" -> "static_error"
                           [] OTHER -> "panic"
             /\ locals' = r.rs.locals
             /\ scopes' = r.rs.scopes
             /\ current_function' = r.rs.current_function
             /\ current_class' = r.rs.current_class
       IN  after(Resolver_resolve(Resolver_new(locals), program))
    /\ UNCHANGED <<program, pc, heap, environment, out, blocks, now>>
    /\ UNCHANGED <<scan_vars, env_vars, parse_vars>>

(* one iteration of the loop of Interpreter::interpret *)
Interpret ==
    /\ phase = "resolved"
    /\ pc <= Len(program)
    /\ LET after(r) ==
             /\ phase' = CASE r.k = "ok" -> "resolved"
                           [] r.k = "err" -> "runtime_error"
                           [] OTHER -> "panic"
             /\ pc' = IF r.k = "ok" THEN pc + 1 ELSE pc
             /\ heap' = r.st.heap
             /\ environment' = r.st.environment
             /\ locals' = r.st.locals
             /\ out' = r.st.out
             /\ blocks' = r.st.blocks
             /\ now' = r.st.now
       IN  after(execute(st, program[pc]))
    /\ UNCHANGED <<program, scopes, current_function, current_class>>
    /\ UNCHANGED <<scan_vars, env_vars, parse_vars>>

(* the loop is over: interpret returns Ok(()) *)
InterpretReturns ==
    /\ phase = "resolved"
    /\ pc > Len(program)
    /\ phase' = "done"
    /\ UNCHANGED <<program, pc, heap, environment, locals, out, blocks, now,
                   scopes, current_function, current_class>>
    /\ UNCHANGED <<scan_vars, env_vars, parse_vars>>

Next == Resolve \/ Interpret \/ InterpretReturns

Spec == Init /\ [][Next]_vars

----------------------------------------------------------------------------
(* Properties of the interpreter pipeline                                  *)

finished == phase = "done"
crashed == phase = "panic"

(* C1: every return of execute_block, whether the statements ran to the end,
   a statement yielded a value, or a statement failed, leaves
   Interpreter.environment equal to what it was when the block was entered. *)
C1_ExecuteBlockRestoresEnvironment ==
    \A i \in DOMAIN blocks : blocks[i].environment = blocks[i].previous

RECURSIVE fib(_)
fib(n) == IF n < 2 THEN n ELSE fib(n - 1) + fib(n - 2)

(* C3: `return e;` makes the enclosing call evaluate to the value of e, so
   `fun f() { return v; } print f();` prints v and the recursive fib(k)
   prints the k-th Fibonacci number. *)
C3_ReturnYieldsValue ==
    /\ \A v \in TestValues :
         program = ReturnProgram(v) =>
           /\ ~crashed
           /\ pc > 2 => out = <<Display(v)>>
    /\ \A k \in 0..MaxFib :
         program = FibProgram(k) =>
           /\ ~crashed
           /\ pc > 2 => out = <<Display(Number(fib(k)))>>

(* C4: each makeCounter() call captures its own environment: the program is
   accepted and run without a crash, and a(), a(), b() print 1, 2, 1. *)
C4_CountersIndependent ==
    program = MakeCounterProgram =>
      /\ phase \notin {"panic", "static_error", "runtime_error"}
      /\ finished => out = <<"1", "2", "1">>

(* C5: a function body runs in an environment whose parent is the
   declaration environment: the free variable x of f reads the global x
   even when f is called from a block that declares its own x. *)
C5_ClosureReadsDeclarationScope ==
    \A v \in TestValues, w \in TestValues :
      /\ program = ClosureProgram(v, w) =>
           /\ ~crashed
           /\ pc > 3 => out = <<Display(v)>>
      /\ program = ClosureReadProgram(v, w) =>
           /\ ~crashed
           /\ pc > 3 => out = <<Display(w), Display(v)>>

DefineNames == {"a", "b"}

(* C6: Environment::define writes one binding of the scope it is called on
   and nothing else; after `var a = v; { var a = w; print a; }` the global a
   still holds v and `print a;` prints it. *)
C6_DefineOnlyInOwnScope ==
    /\ \A e \in DOMAIN heap, name \in DefineNames, v \in TestValues :
         LET h == define(heap, e, name, v)
         IN  /\ DOMAIN h = DOMAIN heap
             /\ \A o \in DOMAIN heap \ {e} : h[o] = heap[o]
             /\ h[e].parent = heap[e].parent
             /\ Has(h[e].values, name) /\ h[e].values[name] = v
             /\ DOMAIN h[e].values = DOMAIN heap[e].values \cup {name}
             /\ \A n \in DOMAIN heap[e].values \ {name} :
                  h[e].values[n] = heap[e].values[n]
    /\ \A v \in TestValues, w \in TestValues :
         program = ShadowProgram(v, w) =>
           /\ ~crashed
           /\ pc > 1 => heap[globals].values["a"] = v
           /\ pc > 2 => /\ heap[2].parent = globals
                        /\ heap[2].values["a"] = w
                        /\ environment = globals
           /\ pc > 3 => out = <<Display(w), Display(v)>>

C6_Witness ==
    /\ program = ShadowProgram(Number(1), Number(2))
    /\ finished
    /\ out = <<"2", "1">>
    /\ heap[globals].values["a"] = Number(1)
    /\ heap[2].values["a"] = Number(2)

(* C7: super.m() looks m up from the superclass of the class that declares
   the calling method and binds it to the current this, whatever the
   run-time class of the instance and wherever in the method the super
   expression stands. *)
C7_SuperDispatchIsStatic ==
    /\ \A v \in TestValues :
         program = SuperProgram(v) =>
           /\ ~crashed
           /\ finished => out = <<"A.m", Display(v)>>
    /\ program = SuperNestedProgram =>
         /\ ~crashed
         /\ finished => out = <<"A.m">>

(* C8: an instance has one field map shared by every reference: a field set
   in init is read back from the class call, a field set through p is read
   through q, and a field write changes no variable binding. *)
C8_FieldsSharedByReferences ==
    \A v \in TestValues :
      /\ program = InitFieldProgram(v) =>
           /\ ~crashed
           /\ finished => out = <<Display(v)>>
      /\ program = TwoReferencesProgram(v) =>
           /\ ~crashed
           /\ finished => out = <<Display(v), Display(v)>>
      /\ \A w \in TestValues :
           program = ShadowedSetProgram(v, w) =>
             /\ ~crashed
             /\ pc > 2 => heap[globals].values["p"] = v

(* C9: the resolver rejects `return v;` in a method named init with a static
   error; it accepts a bare `return;`, which at run time ends the
   initializer, the class call still yielding the new instance. *)
C9_ReturnInInitializer ==
    \A v \in TestValues :
      /\ program = InitReturnValueProgram(v) =>
           /\ phase \in {"parsed", "static_error"}
           /\ out = <<>>
      /\ program = InitReturnProgram(v) =>
           /\ phase \notin {"static_error", "panic", "runtime_error"}
           /\ pc > 2 => out = <<"LoxInstance C">>

C9_Witness ==
    /\ program = InitReturnProgram(Number(1))
    /\ finished
    /\ out = <<"LoxInstance C">>

truthy(v) == ~(v = Nil \/ v = Bool(FALSE))

(* C10: `a or b` with a truthy a and `a and b` with a falsy a (nil or false)
   yield a without evaluating b; otherwise they yield the value of b. *)
C10_LogicalShortCircuit ==
    \A v \in TestValues, w \in TestValues :
      program = LogicalProgram(v, w) =>
        LET first == IF truthy(v) THEN <<Display(v)>> ELSE <<"side", "NIL">>
            second == IF truthy(w) THEN <<"side", "NIL">> ELSE <<Display(w)>>
        IN  /\ ~crashed
            /\ pc = 3 => out = first
            /\ pc > 3 => out = first \o second

----------------------------------------------------------------------------
(* Scanner (src/src/scanner.rs).  A source is a sequence of one-character  *)
(* strings; the scanner sc is the record [source, tokens, start, current,  *)
(* line].  Operators return [sc, k]: k is "ok", "err" (the Err the `?`     *)
(* hands to the caller), "panic" (a slice out of range), or the loop the   *)
(* scanner is left in ("comment", "string").                               *)

MaxLen == 3

NUL == "NUL"
Digits == {"0", "1", "2", "3", "4", "5", "6", "7", "8", "9"}
Letters ==
    {"a", "b", "c", "d", "e", "f", "g", "h", "i", "j", "k", "l", "m", "n", "o", "p",
     "q", "r", "s", "t", "u", "v", "w", "x", "y", "z",
     "A", "B", "C", "D", "E", "F", "G", "H", "I", "J", "K", "L", "M", "N", "O", "P",
     "Q", "R", "S", "T", "U", "V", "W", "X", "Y", "Z"}

Alphabet == {"/", "\n", "\"", "o", "r", "1", "=", " ", "@"}

Sources == UNION {[1..n -> Alphabet] : n \in 0..MaxLen}

KEYWORDS ==
    [and |-> "AND", class |-> "CLASS", else |-> "ELSE", false |-> "FALSE",
     for |-> "FOR", fun |-> "FUN", if |-> "IF", nil |-> "NIL", or |-> "OR",
     print |-> "PRINT", return |-> "RETURN", super |-> "SUPER", this |-> "THIS",
     true |-> "TRUE", var |-> "VAR", while |-> "WHILE"]

RECURSIVE from_utf8(_)
from_utf8(bytes) ==
    IF bytes = <<>> THEN "" ELSE bytes[1] \o from_utf8(Tail(bytes))

Scanner_new(src) == [source |-> src, tokens |-> <<>>, start |-> 0, current |-> 0, line |-> 0]

is_at_end(sc) == sc.current >= Len(sc.source)

is_digit(c) == c \in Digits
is_alpha(c) == TRUE
is_alpha_numeric(c) == c \in Letters \cup Digits

peek(sc) == IF is_at_end(sc) THEN NUL ELSE sc.source[sc.current + 1]

double_peek(sc) ==
    IF sc.current + 1 >= Len(sc.source) THEN NUL ELSE sc.source[sc.current + 2]

get_current_and_advance_cursor(sc) == [sc EXCEPT !.current = @ + 1]

next_is(sc, item) ==
    IF is_at_end(sc) THEN [sc |-> sc, b |-> FALSE]
    ELSE IF sc.source[sc.current + 1] # item THEN [sc |-> sc, b |-> FALSE]
    ELSE [sc |-> [sc EXCEPT !.current = @ + 1], b |-> TRUE]

(* &source.as_bytes()[from..to] *)
InRange(sc, from, to) == from <= to /\ to <= Len(sc.source)
Slice(sc, from, to) == SubSeq(sc.source, from + 1, to)

add_token(sc, token_type, value) ==
    IF ~InRange(sc, sc.start, sc.current) THEN [sc |-> sc, k |-> "panic"]
    ELSE LET token == [token_type |-> token_type,
                       lexeme |-> from_utf8(Slice(sc, sc.start, sc.current)),
                       literal |-> value, line |-> sc.line]
         IN  [sc |-> [sc EXCEPT !.tokens = Append(@, token)], k |-> "ok"]

RECURSIVE skip_digits(_)
skip_digits(sc) ==
    IF is_digit(peek(sc)) THEN skip_digits(get_current_and_advance_cursor(sc)) ELSE sc

RECURSIVE skip_alpha_numeric(_)
skip_alpha_numeric(sc) ==
    IF is_alpha_numeric(peek(sc))
    THEN skip_alpha_numeric(get_current_and_advance_cursor(sc)) ELSE sc

DigitValue ==
    [c \in Digits |-> CHOOSE n \in 0..9 : ToString(n) = c]

(* f64::from_str on a lexeme of digits with an optional fraction *)
RECURSIVE from_str(_, _)
from_str(bytes, acc) ==
    IF bytes = <<>> THEN Number(acc)
    ELSE IF bytes[1] = "."
    THEN [t |-> "Number", n |-> acc, fraction |-> from_utf8(Tail(bytes))]
    ELSE from_str(Tail(bytes), 10 * acc + DigitValue[bytes[1]])

extract_number(sc) ==
    LET whole == skip_digits(sc)
        all == IF peek(whole) = "." /\ is_digit(double_peek(whole))
               THEN skip_digits(get_current_and_advance_cursor(whole))
               ELSE whole
    IN  [sc |-> all, v |-> from_str(Slice(all, all.start, all.current), 0)]

extract_identifier(sc) ==
    LET all == skip_alpha_numeric(sc)
    IN  [sc |-> all, v |-> from_utf8(Slice(all, all.start, all.current))]

SingleCharacter ==
    [x \in {"(", ")", "{", "}", ",", ".", "-", "+", ";", "*"} |->
       CASE x = "(" -> "LEFTPAREN" [] x = ")" -> "RIGHTPAREN"
         [] x = "{" -> "LEFTBRACE" [] x = "}" -> "RIGHTBRACE"
         [] x = "," -> "COMMA" [] x = "." -> "DOT" [] x = "-" -> "MINUS"
         [] x = "+" -> "PLUS" [] x = ";" -> "SEMICOLON" [] x = "*" -> "STAR"]

WithEqual ==
    [x \in {"!", "=", "<", ">"} |->
       CASE x = "!" -> <<"BANGEQUAL", "BANG">>
         [] x = "=" -> <<"EQUALEQUAL", "EQUAL">>
         [] x = "<" -> <<"LESSEQUAL", "LESS">>
         [] x = ">" -> <<"GREATEREQUAL", "GREATER">>]

(* `let _ = match ...; Ok(())`: the Result of the match is dropped *)
Dropped(r) == IF r.k = "panic" THEN r ELSE [sc |-> r.sc, k |-> "ok"]

(* scan_token up to the point where it returns or enters one of its
   unbounded loops *)
scan_token(sc0) ==
    LET current_char == sc0.source[sc0.current + 1]
        sc == get_current_and_advance_cursor(sc0)
    IN  CASE current_char \in DOMAIN SingleCharacter ->
               Dropped(add_token(sc, SingleCharacter[current_char], None))
          [] current_char \in DOMAIN WithEqual ->
               LET n == next_is(sc, "=")
               IN  Dropped(add_token(n.sc, WithEqual[current_char][IF n.b THEN 1 ELSE 2],
                                     None))
          [] current_char = "/" ->
               LET n == next_is(sc, "/")
               IN  IF n.b THEN [sc |-> n.sc, k |-> "comment"]
                   ELSE Dropped(add_token(sc, "SLASH", None))
          [] current_char \in {" ", "\r", "\t"} -> [sc |-> sc, k |-> "ok"]
          [] current_char = "\n" -> [sc |-> [sc EXCEPT !.current = @ + 1], k |-> "ok"]
          [] current_char = "\"" -> [sc |-> sc, k |-> "string"]
          [] OTHER ->
               IF is_digit(current_char)
               THEN LET value == extract_number(sc)
                    IN  Dropped(add_token(value.sc, "NUMBER", value.v))
               ELSE IF is_alpha(current_char)
               THEN LET value == extract_identifier(sc)
                    IN  IF value.v \in DOMAIN KEYWORDS
                        THEN add_token(value.sc, KEYWORDS[value.v], None)
                        ELSE add_token(value.sc, "IDENTIFIER", None)
               ELSE [sc |-> sc, k |-> "ok"]

(* one iteration of the loop of the `//` branch (lines 94-98) *)
comment_loop(sc) ==
    IF peek(sc) = "\n" /\ ~is_at_end(sc)
    THEN get_current_and_advance_cursor(sc)
    ELSE sc

(* one iteration of the loop of extract_string, with the add_token that
   follows its return in scan_token *)
extract_string(sc) ==
    IF peek(sc) = "\""
    THEN LET closed == get_current_and_advance_cursor(sc)
         IN  IF ~InRange(closed, closed.start + 1, closed.current - 1)
             THEN [sc |-> closed, k |-> "panic"]
             ELSE Dropped(add_token(closed, "STRING",
                    String(from_utf8(Slice(closed, closed.start + 1, closed.current - 1)))))
    ELSE IF is_at_end(sc)
    THEN [sc |-> sc, k |-> "err"]
    ELSE [sc |-> get_current_and_advance_cursor([sc EXCEPT !.line = @ + 1]),
          k |-> "string"]

----------------------------------------------------------------------------
(* Scanner::scan_tokens as a process: scan_pc is "loop" at the head of the  *)
(* loop of scan_tokens, "comment" and "string" inside the two inner loops,  *)
(* and "returned" (Ok(tokens)), "error" (Err) or "panic" when it is over.   *)

sc == [source |-> source, tokens |-> tokens, start |-> start, current |-> current,
       line |-> line]

Becomes(r) ==
    /\ source' = r.sc.source
    /\ tokens' = r.sc.tokens
    /\ start' = r.sc.start
    /\ current' = r.sc.current
    /\ line' = r.sc.line
    /\ scan_pc' = CASE r.k = "ok" -> "loop"
                    [] r.k = "err" -> "error"
                    [] OTHER -> r.k

InterpreterIdle ==
    /\ program = <<>> /\ phase = "scanning" /\ pc = 1
    /\ heap = <<>> /\ environment = 0 /\ locals = EmptyMap /\ out = <<>>
    /\ blocks = <<>> /\ now = 0
    /\ scopes = <<>> /\ current_function = "None" /\ current_class = "None"

ScanInit ==
    /\ \E src \in Sources :
         LET new == Scanner_new(src)
         IN  /\ source = new.source /\ tokens = new.tokens /\ start = new.start
             /\ current = new.current /\ line = new.line
    /\ scan_pc = "loop" /\ spins = 0
    /\ InterpreterIdle
    /\ EnvironmentIdle
    /\ ParserIdle

(* lines 38-45: not at the end, so start = current and scan_token() *)
ScanToken ==
    /\ scan_pc = "loop"
    /\ ~is_at_end(sc)
    /\ Becomes(scan_token([sc EXCEPT !.start = sc.current]))
    /\ UNCHANGED <<spins, interp_vars, env_vars, parse_vars>>

CommentLoop ==
    /\ scan_pc = "comment"
    /\ Becomes([sc |-> comment_loop(sc), k |-> "comment"])
    /\ spins' = 1 - spins
    /\ UNCHANGED <<interp_vars, env_vars, parse_vars>>

ExtractString ==
    /\ scan_pc = "string"
    /\ Becomes(extract_string(sc))
    /\ UNCHANGED <<spins, interp_vars, env_vars, parse_vars>>

(* lines 40-41 and 47-48: at the end, add the EOF token and return *)
ScanTokensReturns ==
    /\ scan_pc = "loop"
    /\ is_at_end(sc)
    /\ LET r == add_token(sc, "EOF", None)
       IN  Becomes([sc |-> r.sc, k |-> IF r.k = "ok" THEN "returned" ELSE r.k])
    /\ UNCHANGED <<spins, interp_vars, env_vars, parse_vars>>

ScanNext == ScanToken \/ CommentLoop \/ ExtractString \/ ScanTokensReturns

(* the scanner is the only process: it takes a step whenever it can *)
ScanSpec == ScanInit /\ [][ScanNext]_vars /\ WF_vars(ScanNext)

scan_over == scan_pc \in {"returned", "error", "panic"}

EOFs == {i \in DOMAIN tokens : tokens[i].token_type = "EOF"}

(* C2: scan_tokens comes to an end on every source, a source with a `//`
   comment included, and the tokens it returns hold exactly one EOF token,
   which is the last one. *)
C2_ScanTokensTerminates ==
    /\ <>scan_over
    /\ [](scan_pc = "returned" => EOFs = {Len(tokens)})

----------------------------------------------------------------------------
(* Properties of the values                                                *)

(* the values bound in some environment, and the literals of the programs *)
Values ==
    TestValues
    \cup (UNION {{heap[e].values[n] : n \in DOMAIN heap[e].values} : e \in DOMAIN heap}
          \ {None})

Payload == {"Nil", "Bool", "Number", "String"}

text(b) == IF b THEN "true" ELSE "false"

(* C11: is_truthy is false for nil and false and true for every other
   value, a function, a native function, a class and an instance included;
   `!v` prints the negation of that. *)
C11_TruthinessRule ==
    /\ finished => \A v \in Values : is_truthy(v) = truthy(v)
    /\ \A v \in TestValues :
         program = NotProgram(v) =>
           /\ ~crashed
           /\ pc > 4 => out[1] = text(~truthy(v))
           /\ finished => out = <<text(~truthy(v)), "false", "false", "false", "false">>

(* C12: is_equal is never true across variants, is equality of the payloads
   within Nil, Bool, Number and String, and is symmetric; `!=` prints the
   negation of what `==` prints. *)
C12_EqualityRule ==
    /\ \A a \in Values, b \in Values :
         /\ a.t # b.t => ~is_equal(a, b)
         /\ (a.t = b.t /\ a.t \in Payload) => (is_equal(a, b) <=> a = b)
         /\ is_equal(a, b) <=> is_equal(b, a)
    /\ \A v \in TestValues, w \in TestValues :
         program = EqualProgram(v, w) =>
           /\ ~crashed
           /\ pc > 1 => out[1] = text(v = w)
           /\ finished => out = <<text(v = w), text(v # w)>>

C12_Witness ==
    /\ program = EqualProgram(Number(1), Number(1))
    /\ finished
    /\ out = <<"true", "false">>

----------------------------------------------------------------------------
(* Properties of the resolution of the references                          *)

(* the resolver has run over the whole program without an error *)
resolved == phase \in {"resolved", "done", "runtime_error", "panic"}

(* the hop count the side table holds for a reference: none for a global *)
hops(expr) ==
    IF Has(locals, get_hash_key(expr).v) THEN {locals[get_hash_key(expr).v]} ELSE {}

(* C13: a reference inside a scope that declares its name is recorded with
   the number of scopes between the use and the nearest declaring scope, a
   reference to a name no local scope declares is recorded nowhere and is
   read from the globals. *)
C13_HopCounts ==
    /\ \A v \in TestValues, w \in TestValues :
         (resolved /\ program = HopProgram(v, w)) =>
           LET inner == program[2].statements[2].statements
           IN  /\ hops(inner[2].expression) = {1}
               /\ hops(inner[3].expression) = {0}
               /\ hops(inner[4].expression) = {}
               /\ ~crashed
               /\ finished => out = <<Display(w), Display(v), Display(v)>>
    /\ \A v \in TestValues :
         (resolved /\ program = DepthProgram(v)) =>
           LET outer == program[1].statements
           IN  /\ hops(outer[2].expression) = {0}
               /\ hops(outer[3].statements[1].expression) = {1}
               /\ ~crashed
               /\ finished => out = <<Display(v), Display(v)>>
    /\ \A v \in TestValues, w \in TestValues :
         (resolved /\ program = ClosureReadProgram(v, w)) =>
           /\ hops(program[2].body[1].expression) = {}
           /\ hops(program[3].statements[2].expression) = {0}

(* C14: two different reference expressions never have the same key in the
   side table, so each reference is looked up with the hop count computed
   for it: a use of a name at another depth, or a global use of a name that
   is also used locally, reads its own binding. *)
C14_KeysDistinct ==
    /\ \A v \in TestValues :
         (resolved /\ program = DepthProgram(v)) =>
           LET outer == program[1].statements
           IN  get_hash_key(outer[2].expression)
                 # get_hash_key(outer[3].statements[1].expression)
    /\ \A v \in TestValues, w \in TestValues :
         (resolved /\ program = ClosureReadProgram(v, w)) =>
           /\ get_hash_key(program[2].body[1].expression)
                # get_hash_key(program[3].statements[2].expression)
           /\ phase # "panic"
           /\ finished => out = <<Display(w), Display(v)>>

----------------------------------------------------------------------------
(* Environment (src/src/environment.rs), called on its own: a chain of     *)
(* scopes is built with new_with_parent_environment and define on the      *)
(* current scope, and assign, assign_at and get_at are called on the       *)
(* current scope                                                           *)

MaxEnvironments == 3
Names == {"a", "b"}
Defined == {Number(0)}
Assigned == {Number(1)}

EnvInit ==
    /\ heap = <<Environment_new>> /\ environment = 1
    /\ last_assign = <<>>
    /\ program = <<>> /\ phase = "environment" /\ pc = 1
    /\ locals = EmptyMap /\ out = <<>> /\ blocks = <<>> /\ now = 0
    /\ scopes = <<>> /\ current_function = "None" /\ current_class = "None"
    /\ ScannerIdle
    /\ ParserIdle

EnvRest ==
    UNCHANGED <<program, phase, pc, locals, out, blocks, now,
                scopes, current_function, current_class, scan_vars, parse_vars>>

EnvNewWithParent ==
    /\ Len(heap) < MaxEnvironments
    /\ heap' = Append(heap, new_with_parent_environment(environment))
    /\ environment' = Len(heap) + 1
    /\ UNCHANGED last_assign
    /\ EnvRest

EnvDefine ==
    /\ \E name \in Names, value \in Defined :
         heap' = define(heap, environment, name, value)
    /\ UNCHANGED <<environment, last_assign>>
    /\ EnvRest

EnvAssign ==
    /\ \E e \in {environment}, name \in Names, value \in Assigned :
         LET after(r) ==
               /\ heap' = r.h
               /\ last_assign' = [op |-> "assign", e |-> e, name |-> name,
                                   value |-> value, k |-> r.k]
         IN  after(assign(heap, e, name, value))
    /\ UNCHANGED environment
    /\ EnvRest

EnvAssignAt ==
    /\ \E e \in {environment}, distance \in 0 .. MaxEnvironments - 1,
          name \in Names, value \in Assigned :
         LET after(r) ==
               /\ heap' = r.h
               /\ last_assign' = [op |-> "assign_at", e |-> e, distance |-> distance,
                                   name |-> name, value |-> value, k |-> r.k]
         IN  after(assign_at(heap, e, distance, name, value))
    /\ UNCHANGED environment
    /\ EnvRest

EnvGetAt ==
    /\ \E e \in {environment}, distance \in 0 .. MaxEnvironments - 1, name \in Names :
         LET after(r) ==
               last_assign' = [op |-> "get_at", e |-> e, distance |-> distance,
                               name |-> name, value |-> r.v, k |-> r.k]
         IN  after(get_at(heap, e, distance, name))
    /\ UNCHANGED <<heap, environment>>
    /\ EnvRest

EnvNext == EnvNewWithParent \/ EnvDefine \/ EnvAssign \/ EnvAssignAt \/ EnvGetAt

EnvSpec == EnvInit /\ [][EnvNext]_vars

(* the scopes from e outwards *)
RECURSIVE Chain(_, _)
Chain(h, e) == IF e = 0 THEN <<>> ELSE <<e>> \o Chain(h, h[e].parent)

(* the positions of the chain whose scope binds the name *)
Holders(h, e, name) == {i \in DOMAIN Chain(h, e) : Has(h[Chain(h, e)[i]].values, name)}

Nearest(h, e, name) ==
    Chain(h, e)[CHOOSE i \in Holders(h, e, name) : \A j \in Holders(h, e, name) : i <= j]

(* C15: assign overwrites the binding of the nearest scope of the chain that
   has the name and changes nothing else; when no scope of the chain has the
   name it is an error and nothing changes. *)
C15_AssignNearestScope ==
    phase = "environment" =>
      \A e \in DOMAIN heap, name \in Names, value \in Assigned :
        LET written(r, nearest) ==
              /\ r.k = "ok"
              /\ DOMAIN r.h = DOMAIN heap
              /\ \A i \in DOMAIN heap :
                   /\ r.h[i].parent = heap[i].parent
                   /\ i # nearest => r.h[i] = heap[i]
              /\ DOMAIN r.h[nearest].values = DOMAIN heap[nearest].values
              /\ r.h[nearest].values[name] = value
              /\ \A n \in DOMAIN heap[nearest].values \ {name} :
                   r.h[nearest].values[n] = heap[nearest].values[n]
            refused(r) == r.k = "err" /\ r.h = heap
        IN  IF Holders(heap, e, name) = {}
            THEN refused(assign(heap, e, name, value))
            ELSE written(assign(heap, e, name, value), Nearest(heap, e, name))

(* assign went past two scopes without the name and wrote to the third *)
C15_Witness ==
    /\ last_assign # <<>>
    /\ last_assign.op = "assign"
    /\ last_assign.k = "ok"
    /\ last_assign.e = 3
    /\ Holders(heap, 3, last_assign.name) = {3}
    /\ heap[1].values[last_assign.name] = last_assign.value

(* the scope that is distance parent links above e *)
ancestor(h, e, distance) == Chain(h, e)[distance + 1]

(* C27: assign_at(d, name, v) and get_at(d, name) work on the scope exactly d
   parent links above the scope they are called on: assign_at binds the name
   to v there and changes no other scope, get_at called next with the same d
   and name returns v, and get_at reads that scope only, so that it has no
   value when the name is absent there, whatever the other scopes hold. *)
C27_ExactDistance ==
    [][(phase = "environment" /\ last_assign' # last_assign
          /\ last_assign'.op # "assign") =>
         LET made == last_assign'
             within == made.distance < Len(Chain(heap, made.e))
             target == ancestor(heap, made.e, made.distance)
         IN  IF made.op = "assign_at"
             THEN within =>
                    /\ made.k = "ok"
                    /\ heap' = [heap EXCEPT ![target].values =
                                  [n \in DOMAIN heap[target].values \cup {made.name} |->
                                     IF n = made.name THEN made.value
                                     ELSE heap[target].values[n]]]
                    /\ get_at(heap', made.e, made.distance, made.name)
                         = [k |-> "ok", v |-> made.value]
             ELSE /\ heap' = heap
                  /\ made.k = "ok" <=>
                       (within /\ made.name \in DOMAIN heap[target].values)
                  /\ made.k = "ok" => made.value = heap[target].values[made.name]
      ]_vars

(* assign_at wrote to the middle scope, which lacked the name, while the
   outer scope keeps its own binding and the inner scope has none *)
C27_Witness ==
    /\ last_assign # <<>>
    /\ last_assign.op = "assign_at"
    /\ last_assign.e = 3
    /\ last_assign.distance = 1
    /\ ~Has(heap[3].values, last_assign.name)
    /\ heap[2].values = Put(EmptyMap, last_assign.name, last_assign.value)
    /\ Has(heap[1].values, last_assign.name)
    /\ heap[1].values[last_assign.name] # last_assign.value

----------------------------------------------------------------------------
(* Properties of the calls                                                 *)

(* the programs whose last statement is a call that visit_call_expr
   refuses, with what the callee and the arguments print on the way *)
RefusedCalls ==
    {[program |-> NotCallableProgram(v), out |-> <<"one", "two">>] : v \in TestValues}
    \cup {[program |-> CalleeFirstProgram, out |-> <<"callee", "one", "two">>],
          [program |-> ClockArityProgram, out |-> <<"one">>],
          [program |-> ArityProgram(0), out |-> <<>>],
          [program |-> ArityProgram(2), out |-> <<"one", "two">>],
          [program |-> ClassArityProgram(0), out |-> <<>>],
          [program |-> ClassArityProgram(2), out |-> <<"one", "two">>]}

LastStatement == Len(Callees) + 1

(* C16: on a callee that is not callable, and on a number of arguments that
   is not the callee's arity, visit_call_expr returns an error after the
   callee and then the arguments, left to right, have been evaluated; the
   callee's body has not run and the current environment is the same. *)
C16_CallChecks ==
    \A c \in RefusedCalls :
      (program = c.program /\ pc = LastStatement) =>
        /\ phase = "resolved" =>
             LET refused(r) ==
                   /\ r.k = "err"
                   /\ r.st.out = c.out
                   /\ r.st.environment = environment
             IN  refused(visit_call_expr(st, program[pc].expression))
        /\ phase # "resolved" =>
             /\ out = c.out
             /\ environment = globals

C16_Witness ==
    /\ program = ArityProgram(2)
    /\ pc = LastStatement
    /\ phase = "panic"
    /\ out = <<"one", "two">>

(* C17: a runtime error raised while the body of a function or of an
   initializer is executing ends the run at the top-level statement of the
   call: interpret returns the error, nothing has been printed, the
   initializer call has bound no instance and the statement after the call
   is not executed. *)
C17_ErrorAbortsStatement ==
    /\ \A v \in {w \in TestValues : w.t # "Bool"} :
         (program = FunctionErrorProgram(v) \/ program = InitErrorProgram(v)) =>
           /\ out = <<>>
           /\ pc <= 2
           /\ ~crashed
           /\ ~finished
           /\ \A e \in DOMAIN heap : ~Has(heap[e].values, "k")
    /\ \A v \in {w \in TestValues : w.t # "Number"} :
         program = FunctionNegateProgram(v) =>
           /\ out = <<>>
           /\ pc <= 2
           /\ ~crashed
           /\ ~finished

----------------------------------------------------------------------------
(* Properties of the scanner                                               *)

scanned_types == [i \in DOMAIN tokens |-> tokens[i].token_type]

(* C18: a lexical error, an unterminated string or a character of no token,
   does not end the scan: scan_tokens returns the tokens before and after
   the erroneous text, no token for that text, and EOF at the end. *)
C18_LexicalErrorSkipped ==
    /\ scan_pc # "error"
    /\ scan_pc = "returned" =>
         /\ tokens # <<>>
         /\ tokens[Len(tokens)].token_type = "EOF"
         /\ source = <<"1", "@", "1">> => scanned_types = <<"NUMBER", "NUMBER", "EOF">>
         /\ source = <<"1", "@">> => scanned_types = <<"NUMBER", "EOF">>
         /\ source = <<"1", "\"", "o">> => scanned_types = <<"NUMBER", "EOF">>

(* the newline characters before the character at offset n *)
NewlinesBefore(n) == Cardinality({i \in 1..n : source[i] = "\n"})

(* C19: a token is on line 1 + the number of newline characters before its
   first character. *)
C19_LineNumbers ==
    [][(Len(tokens') > Len(tokens) /\ tokens'[Len(tokens')].token_type # "EOF")
         => tokens'[Len(tokens')].line = 1 + NewlinesBefore(start')]_vars

----------------------------------------------------------------------------
(* Parser (src/src/parser.rs) over the token types of Snippets: the arms   *)
(* of statement and declaration that start with FOR, IF, WHILE, LEFTBRACE  *)
(* and FUN are never entered, and or, and, equality, comparison, term,     *)
(* factor, unary and call, none of whose operators is among these types,   *)
(* hand on the expression of primary                                       *)

POk(ps, v) == [ps |-> ps, k |-> "ok", v |-> v]
PErr(ps, msg) == [ps |-> ps, k |-> "err", v |-> None, msg |-> msg]
PPanic(ps, msg) == [ps |-> ps, k |-> "panic", v |-> None, msg |-> msg]

Parser_new(toks) == [tokens |-> toks, current |-> 0]

Parser_peek(ps) ==
    IF ps.current < Len(ps.tokens) THEN <<ps.tokens[ps.current + 1]>> ELSE <<>>

Parser_is_at_end(ps) ==
    IF Parser_peek(ps) = <<>> THEN TRUE ELSE Parser_peek(ps)[1].token_type = "EOF"

(* (self.current - 1) as usize: the subtraction overflows at 0 *)
previous(ps) ==
    IF ps.current = 0 \/ ps.current > Len(ps.tokens)
    THEN PPanic(ps, "previous: no token before the cursor")
    ELSE POk(ps, ps.tokens[ps.current])

(* an advance that does not look whether the cursor is at the end *)
Parser_get_current_and_advance_cursor_mutant_on(ps) ==
    previous([ps EXCEPT !.current = ps.current + 1])

Parser_get_current_and_advance_cursor(ps) ==
    previous(IF ~Parser_is_at_end(ps) THEN [ps EXCEPT !.current = ps.current + 1] ELSE ps)

check(ps, token_type) ==
    IF Parser_is_at_end(ps) THEN FALSE
    ELSE Parser_peek(ps)[1].token_type = token_type

consume(ps, token_type) ==
    IF check(ps, token_type) THEN Parser_get_current_and_advance_cursor(ps)
    ELSE PErr(ps, "error")

(* the result of the advance is dropped; its panic is not *)
match_token(ps, token_types) ==
    IF \E i \in DOMAIN token_types : check(ps, token_types[i])
    THEN LET advanced(r) == IF r.k = "panic" THEN r ELSE POk(r.ps, TRUE)
         IN  advanced(Parser_get_current_and_advance_cursor(ps))
    ELSE POk(ps, FALSE)

SynchronisePoints == {"CLASS", "FUN", "VAR", "FOR", "IF", "WHILE", "PRINT", "RETURN"}

RECURSIVE synchronise_loop(_)
synchronise_loop(ps) ==
    LET advanced(r) == IF r.k # "ok" THEN r ELSE synchronise_loop(r.ps)
        looked(prev) ==
          CASE prev.k # "ok" -> prev
            [] prev.v.token_type = "SEMICOLON" -> POk(ps, Nil)
            [] Parser_peek(ps)[1].token_type \in SynchronisePoints -> POk(ps, Nil)
            [] OTHER -> advanced(Parser_get_current_and_advance_cursor(ps))
    IN  IF Parser_is_at_end(ps) THEN POk(ps, Nil) ELSE looked(previous(ps))

synchronise(ps) ==
    LET advanced(r) == IF r.k # "ok" THEN r ELSE synchronise_loop(r.ps)
    IN  advanced(Parser_get_current_and_advance_cursor(ps))

RECURSIVE expression(_)

primary(ps) ==
    LET literal(m, value) == POk(m.ps, Lit(value))
        of_previous(prev) ==
          IF prev.k # "ok" THEN prev
          ELSE IF prev.v.token_type = "IDENTIFIER"
               THEN POk(prev.ps, VarAt(prev.v.lexeme, prev.v.line))
               ELSE POk(prev.ps, Lit(prev.v.literal))
        closed(inner, paren) ==
          IF paren.k = "ok" THEN POk(paren.ps, Grouping(inner.v))
          ELSE IF paren.k = "panic" THEN paren
          ELSE PErr(paren.ps, "Unknown token")
        grouped(inner) ==
          IF inner.k # "ok" THEN inner ELSE closed(inner, consume(inner.ps, "RIGHTPAREN"))
        opened(m) ==
          CASE m.k # "ok" -> m
            [] m.v -> grouped(expression(m.ps))
            [] OTHER -> PErr(m.ps, "Unknown token")
        named(m) ==
          CASE m.k # "ok" -> m
            [] m.v -> of_previous(previous(m.ps))
            [] OTHER -> opened(match_token(m.ps, <<"LEFTPAREN">>))
        valued(m) ==
          CASE m.k # "ok" -> m
            [] m.v -> of_previous(previous(m.ps))
            [] OTHER -> named(match_token(m.ps, <<"IDENTIFIER">>))
        nil(m) ==
          CASE m.k # "ok" -> m
            [] m.v -> literal(m, Nil)
            [] OTHER -> valued(match_token(m.ps, <<"NUMBER", "STRING">>))
        false(m) ==
          CASE m.k # "ok" -> m
            [] m.v -> literal(m, Bool(FALSE))
            [] OTHER -> nil(match_token(m.ps, <<"NIL">>))
        true(m) ==
          CASE m.k # "ok" -> m
            [] m.v -> literal(m, Bool(TRUE))
            [] OTHER -> false(match_token(m.ps, <<"FALSE">>))
    IN  true(match_token(ps, <<"TRUE">>))

or(ps) == primary(ps)

RECURSIVE assignment(_)
assignment(ps) ==
    LET target(expr, value) ==
          IF value.k # "ok" THEN value
          ELSE IF expr.v.t = "Variable"
               THEN POk(value.ps, AssignAt(expr.v.name, expr.v.line, value.v))
               ELSE POk(value.ps, expr.v)
        equal(expr, m) ==
          CASE m.k # "ok" -> m
            [] m.v -> target(expr, assignment(m.ps))
            [] OTHER -> POk(m.ps, expr.v)
        left(expr) ==
          IF expr.k # "ok" THEN expr ELSE equal(expr, match_token(expr.ps, <<"EQUAL">>))
    IN  left(or(ps))

expression(ps) == assignment(ps)

print_statement(ps) ==
    LET ended(expr, semi) == IF semi.k # "ok" THEN semi ELSE POk(semi.ps, PrintStmt(expr.v))
        value(expr) == IF expr.k # "ok" THEN expr ELSE ended(expr, consume(expr.ps, "SEMICOLON"))
    IN  value(expression(ps))

expression_statement(ps) ==
    LET ended(expr, semi) == IF semi.k # "ok" THEN semi ELSE POk(semi.ps, ExprStmt(expr.v))
        value(expr) == IF expr.k # "ok" THEN expr ELSE ended(expr, consume(expr.ps, "SEMICOLON"))
    IN  value(expression(ps))

statement(ps) ==
    LET print(m) ==
          CASE m.k # "ok" -> m
            [] m.v -> print_statement(m.ps)
            [] OTHER -> expression_statement(m.ps)
    IN  print(match_token(ps, <<"PRINT">>))

var_declaration(ps) ==
    LET ended(var_name, var_value, semi) ==
          IF semi.k # "ok" THEN semi
          ELSE POk(semi.ps, VarStmt(var_name.v.lexeme, var_value.v))
        value(var_name, var_value) ==
          IF var_value.k # "ok" THEN var_value
          ELSE ended(var_name, var_value, consume(var_value.ps, "SEMICOLON"))
        equal(var_name, m) ==
          CASE m.k # "ok" -> m
            [] m.v -> value(var_name, expression(m.ps))
            [] OTHER -> value(var_name, POk(m.ps, None))
        named(var_name) ==
          IF var_name.k # "ok" THEN var_name
          ELSE equal(var_name, match_token(var_name.ps, <<"EQUAL">>))
    IN  named(consume(ps, "IDENTIFIER"))

declaration(ps) ==
    LET synchronised(err, r) == IF r.k # "ok" THEN r ELSE PErr(r.ps, err.msg)
        result(r) ==
          CASE r.k = "ok" -> r
            [] r.k = "panic" -> r
            [] OTHER -> synchronised(r, synchronise(r.ps))
        var(m) ==
          CASE m.k # "ok" -> m
            [] m.v -> result(var_declaration(m.ps))
            [] OTHER -> result(statement(m.ps))
    IN  var(match_token(ps, <<"VAR">>))

----------------------------------------------------------------------------
(* Parser::parse as a process: one step per iteration of its loop          *)

MaxStatements == 3

Token(token_type, lexeme, literal) ==
    [token_type |-> token_type, lexeme |-> lexeme, literal |-> literal, line |-> FirstLine]

SEMI == Token("SEMICOLON", ";", None)
ONE == Token("NUMBER", "1", Number(1))
IS == Token("EQUAL", "=", None)
A == Token("IDENTIFIER", "a", None)
PRINT == Token("PRINT", "print", None)
VAR == Token("VAR", "var", None)

(* a statement's tokens and, when it is well formed, its syntax tree *)
Snippets ==
    { [tokens |-> <<PRINT, ONE, SEMI>>, statement |-> PrintStmt(Lit(Number(1)))],
      [tokens |-> <<VAR, A, IS, ONE, SEMI>>, statement |-> VarStmt("a", Lit(Number(1)))],
      [tokens |-> <<A, IS, ONE, SEMI>>, statement |-> ExprStmt(Assign("a", Lit(Number(1))))],
      [tokens |-> <<PRINT, SEMI>>, statement |-> None],
      [tokens |-> <<VAR, IS, ONE, SEMI>>, statement |-> None] }

DOT == Token("DOT", ".", None)

(* a = 1;   a.a = 1;   1 = 1; *)
VariableTarget == [tokens |-> <<A, IS, ONE, SEMI>>,
                   statement |-> ExprStmt(Assign("a", Lit(Number(1))))]
GetTarget == [tokens |-> <<A, DOT, A, IS, ONE, SEMI>>,
              statement |-> ExprStmt(Set(Var("a"), "a", Lit(Number(1))))]
LiteralTarget == [tokens |-> <<ONE, IS, ONE, SEMI>>, statement |-> None]

StatementSources == UNION {[1..n -> Snippets] : n \in 0..MaxStatements}

SnippetSources ==
    UNION {[1..n -> Snippets \cup {GetTarget, LiteralTarget}] : n \in 0..MaxStatements}

(* one token on its own, so that the sources are all the token lists *)
Loose == {[tokens |-> <<token>>, statement |-> None] :
            token \in {SEMI, ONE, IS, A, PRINT, VAR, DOT}}

ParseSources ==
    UNION {[1..n -> Snippets \cup {GetTarget, LiteralTarget} \cup Loose] :
             n \in 0..MaxStatements}

RECURSIVE TokensOf(_)
TokensOf(src) ==
    IF src = <<>> THEN <<Token("EOF", "", None)>>
    ELSE src[1].tokens \o TokensOf(Tail(src))

ps == [tokens |-> parser_tokens, current |-> parser_current]

ParseInit ==
    /\ \E src \in ParseSources :
         LET new == Parser_new(TokensOf(src))
         IN  parser_tokens = new.tokens /\ parser_current = new.current
    /\ parsed = <<>>
    /\ parser_pc = "loop"
    /\ program = <<>> /\ phase = "parsing" /\ pc = 1
    /\ heap = <<>> /\ environment = 0 /\ locals = EmptyMap /\ out = <<>>
    /\ blocks = <<>> /\ now = 0
    /\ scopes = <<>> /\ current_function = "None" /\ current_class = "None"
    /\ ScannerIdle
    /\ EnvironmentIdle

(* lines 38-40: not at the end, so statements.push(self.declaration()?) *)
ParseDeclaration ==
    /\ parser_pc = "loop"
    /\ ~Parser_is_at_end(ps)
    /\ LET after(r) ==
             /\ parser_current' = r.ps.current
             /\ parsed' = IF r.k = "ok" THEN Append(parsed, r.v) ELSE parsed
             /\ parser_pc' = CASE r.k = "ok" -> "loop"
                               [] r.k = "err" -> "error"
                               [] OTHER -> "panic"
       IN  after(declaration(ps))
    /\ UNCHANGED <<parser_tokens, interp_vars, scan_vars, env_vars>>

(* lines 38 and 42: at the end, Ok(statements) *)
ParseReturns ==
    /\ parser_pc = "loop"
    /\ Parser_is_at_end(ps)
    /\ parser_pc' = "returned"
    /\ UNCHANGED <<parser_tokens, parser_current, parsed, interp_vars, scan_vars, env_vars>>

ParseNext == ParseDeclaration \/ ParseReturns

ParseSpec == ParseInit /\ [][ParseNext]_vars

parse_over == parser_pc \in {"returned", "error", "panic"}

WellFormed(snippet) == snippet.statement.t # "None"

Trees(src) == [i \in DOMAIN src |-> src[i].statement]

(* C20: parse goes on after a syntax error: when it is over the cursor is at
   the end of the tokens and every well-formed statement of the source,
   before, between and after the malformed ones, has been parsed. *)
C20_ParseGoesOn ==
    \A src \in StatementSources :
      (parser_tokens = TokensOf(src) /\ parse_over) =>
        /\ Parser_is_at_end(ps)
        /\ parsed = Trees(SelectSeq(src, WellFormed))

(* the parse of a source that starts with the snippet has made its first step *)
FirstIs(src, snippet) ==
    /\ src # <<>>
    /\ src[1] = snippet
    /\ parser_tokens = TokensOf(src)
    /\ parser_current > 0

(* C21: an `=` after a Variable gives an Assign node, after a Get a Set
   node, and after any other expression a syntax error: the statement is
   not parsed. *)
C21_AssignmentTarget ==
    \A src \in SnippetSources :
      /\ FirstIs(src, VariableTarget) =>
           parsed # <<>> /\ parsed[1] = VariableTarget.statement
      /\ FirstIs(src, GetTarget) =>
           parsed # <<>> /\ parsed[1] = GetTarget.statement
      /\ FirstIs(src, LiteralTarget) =>
           parsed = <<>> /\ parser_pc = "error"

----------------------------------------------------------------------------
(* Properties of the resolver                                              *)

Redeclarations ==
    {RedeclareVarProgram(v, w) : v \in TestValues, w \in TestValues}
    \cup {RedeclareFunctionProgram(v) : v \in TestValues}
    \cup {RedeclareParamProgram}

(* C22: declare is a static error on a name the innermost scope already
   has, be it a variable, a function name or a parameter, and leaves the
   entry of the name as it was; in a scope nested in that one it succeeds. *)
C22_DeclareOncePerScope ==
    /\ (program \in Redeclarations /\ phase # "parsed") =>
         /\ phase = "static_error"
         /\ scopes # <<>>
         /\ Has(scopes[Len(scopes)], "a")
         /\ scopes[Len(scopes)]["a"] = TRUE
    /\ \A v \in TestValues, w \in TestValues :
         program = NestedDeclareProgram(v, w) =>
           /\ phase \notin {"static_error", "panic"}
           /\ finished => out = <<Display(w)>>
    /\ phase = "static_error" =>
         LET inner == begin_scope(Resolver_new(EmptyMap))
             again(once) ==
               /\ once.k = "ok"
               /\ Resolver_declare(once.rs, "a").k = "err"
               /\ Resolver_declare(once.rs, "a").rs = once.rs
               /\ Resolver_declare(begin_scope(once.rs), "a").k = "ok"
         IN  again(Resolver_declare(inner, "a"))

C22_Witness ==
    /\ program = RedeclareFunctionProgram(Nil)
    /\ phase = "static_error"
    /\ scopes = <<Put(EmptyMap, "a", TRUE)>>

(* C23: a local `var a = <expr>;` whose initializer reads `a` makes resolve
   return a static error, an enclosing declaration of `a` or not, and no
   hop count is recorded for the read. *)
C23_OwnInitializer ==
    (program \in OwnInitializers /\ phase # "parsed") =>
      /\ phase = "static_error"
      /\ ~Has(locals, token_hash("a", FirstLine))

(* C24: a `return` outside every function is a static error, after a
   function declaration too, and the kind of the enclosing function is back
   when a function has been resolved: after a function nested in `init` the
   kind is Initializer again. *)
C24_CurrentFunctionRestored ==
    /\ \A v \in TestValues :
         ((program = TopLevelReturnProgram \/ program = ReturnAfterFunctionProgram(v))
          /\ phase # "parsed") =>
           /\ phase = "static_error"
           /\ current_function = "None"
    /\ \A v \in TestValues :
         (program = InitNestedValueProgram(v) /\ phase # "parsed") =>
           /\ phase = "static_error"
           /\ current_function = "Initializer"
    /\ \A v \in TestValues :
         (program = InitNestedProgram(v) /\ phase # "parsed") =>
           /\ phase \in {"resolved", "done"}
           /\ current_function = "None"

C24_Witness ==
    /\ program = ReturnAfterFunctionProgram(Nil)
    /\ phase = "static_error"
    /\ current_function = "None"

(* C25: the resolution of an assignment `y = z` comes to an end: the value
   z has been resolved, the target y has its hop count, and the program
   runs. *)
C25_AssignResolves ==
    \A v \in TestValues, w \in TestValues :
      (program = AssignProgram(v, w) /\ phase # "parsed") =>
        /\ phase # "panic"
        /\ hops(program[1].statements[3].expression) = {0}
        /\ hops(program[1].statements[3].expression.value) = {0}
        /\ finished => out = <<Display(w)>>

----------------------------------------------------------------------------
(* Properties of the blocks                                                *)

(* what the body prints up to the statement that yields v, or to its end *)
Printed(body, v) ==
    CASE v # Nil -> <<"first">>
      [] body = IfReturnBody(v) -> <<"first", "later">>
      [] OTHER -> <<"first", "inner", "later">>

(* C26: execute_block returns the first result of a statement that is not
   Nil and executes no statement after it; when every statement yields Nil
   it executes them all, in order, and returns Nil. *)
C26_BlockStopsAtResult ==
    \A v \in TestValues :
      \A body \in {IfReturnBody(v), BlockReturnBody(v)} :
        program = EarlyExitProgram(body) =>
          /\ (phase = "resolved" /\ pc = 2) =>
               LET result(r) ==
                     /\ r.k = "ok"
                     /\ r.v = v
                     /\ r.st.out = Printed(body, v)
                     /\ r.st.environment = environment
               IN  result(execute_block(st, body, new_with_parent_environment(globals)))
          /\ pc > 2 =>
               /\ SubSeq(out, 1, Len(Printed(body, v))) = Printed(body, v)
               /\ blocks[Len(blocks)].exit = IF v # Nil THEN "early" ELSE "end"
          /\ ~crashed

C26_Witness ==
    /\ program = EarlyExitProgram(IfReturnBody(Number(1)))
    /\ finished
    /\ out = <<"first", "next">>
    /\ blocks[Len(blocks)].exit = "early"

----------------------------------------------------------------------------
(* Properties of the operators                                             *)

(* C28: unary minus of a number s is the number -s, so that `-v` prints -v
   and `-(-v)` prints v; unary minus of a value that is not a number fails:
   the statement does not complete and nothing is printed. *)
C28_Negation ==
    \A v \in TestValues :
      program = NegateProgram(v) =>
        IF v.t = "Number"
        THEN /\ phase \notin {"panic", "runtime_error"}
             /\ pc > 1 => out[1] = ToString(0 - v.n)
             /\ finished => out = <<ToString(0 - v.n), ToString(v.n)>>
        ELSE /\ out = <<>>
             /\ pc = 1
             /\ ~finished

----------------------------------------------------------------------------
(* Properties of the loops                                                 *)

(* C29: a return in the body of a while loop of a function ends the loop and
   the call: the body runs once, and neither a further iteration nor the
   statement after the loop is executed. *)
C29_ReturnLeavesLoop ==
    \A v \in TestValues :
      program = ReturnInLoopProgram(v) =>
        /\ pc <= 3 => out = <<>>
        /\ pc > 3 => SubSeq(out, 1, 1) = <<"body">>
        /\ pc = 4 => out = <<"body">>
        /\ finished => out = <<"body", "next">>

----------------------------------------------------------------------------
(* Properties of the cursor of the parser                                  *)

(* the index of the EOF token that ends the tokens *)
EndOfFile == Len(parser_tokens) - 1

(* C30: all through Parser::parse, synchronise included, the cursor is
   between 0 and the index of the EOF token and never decreases, and
   previous() is never called with the cursor at 0. *)
C30_CursorInRange ==
    /\ [](phase = "parsing" =>
            /\ parser_tokens[Len(parser_tokens)].token_type = "EOF"
            /\ 0 <= parser_current
            /\ parser_current <= EndOfFile
            /\ parser_pc # "panic")
    /\ [][phase = "parsing" => parser_current' >= parser_current]_vars

(* `print` and the end of the file: synchronise has been entered with the
   cursor on the EOF token and has left it there *)
C30_Witness ==
    /\ phase = "parsing"
    /\ parser_tokens = <<PRINT, Token("EOF", "", None)>>
    /\ parser_pc = "error"
    /\ parser_current = EndOfFile

====
